---- MODULE Spec2Model ----
(***************************************************************************)
(* Ledger reconciliation and windowed feed synchronisation of the budget   *)
(* application.                                                            *)
(*                                                                         *)
(* These specifications share this module:                                 *)
(*   SpecSync       the SimpleFIN endpoint (functions/api/sync.ts, third   *)
(*                  file of the concatenation: claim, disconnect, sync)    *)
(*                  together with the document save endpoint that writes   *)
(*                  the same KV record;                                    *)
(*   SpecPlan       one sync round of that endpoint for every daysBack;    *)
(*   Spec           the in-browser ledger (src/context/BudgetContext.tsx)  *)
(*                  and its ingestion paths;                               *)
(*   SpecRecurring  the recurring rules and their projection;              *)
(*   SpecAccounts   debt and asset accounts, the entry form, balances;     *)
(*   SpecFingerprint  the deduplication fingerprint on pairs of entries;   *)
(*   SpecLedger     every way an entry gets into the ledger, together;     *)
(*   SpecSummary    the figures of SummaryCards for a period;              *)
(*   SpecAutosave   the debounced automatic save of the provider;          *)
(*   SpecSave       two sessions saving the document, reads and writes     *)
(*                  interleaved;                                           *)
(*   SpecRound      one sync round from the browser's call to its answer;  *)
(*   SpecProjection the projection of one rule into one month;             *)
(*   SpecRuleEntries  one rule's entries under projection, date edits,     *)
(*                  deletion and changes of the rule;                      *)
(*   SpecOverlap    a sync round with a disconnect, a claim or a save      *)
(*                  handled while it is in flight;                         *)
(*   SpecTwoRounds  two sync rounds of one user in flight together;        *)
(*   SpecInFlight   the automatic save, its requests in flight, the save   *)
(*                  endpoint and logout.                                   *)
(*                                                                         *)
(* Strings are sequences of one-character strings, so that concatenation,  *)
(* padding, prefix tests and case folding are computed, not assumed.       *)
(* Times are epoch seconds.  Amounts are integers counted in thousandths   *)
(* of the currency unit, so that rounding to two decimals is visible.      *)
(***************************************************************************)
EXTENDS Integers, Sequences, FiniteSets, TLC

(***************************************************************************)
(* Bounds of the model.                                                    *)
(***************************************************************************)
StartEpoch == 1762128000
MaxTicks == 2
MaxClaims == 2
MaxImported == 1
MaxLedger == 2
MaxIds == 5
MaxAccounts == 2

(***************************************************************************)
(* JavaScript `undefined` / `null` for the optional numeric fields of the  *)
(* KV record.                                                              *)
(***************************************************************************)
Undefined == -1

Max(a, b) == IF a >= b THEN a ELSE b
Range(f) == { f[x] : x \in DOMAIN f }
Abs(x) == IF x < 0 THEN 0 - x ELSE x
Min(a, b) == IF a <= b THEN a ELSE b

(***************************************************************************)
(* Strings.                                                                *)
(***************************************************************************)
DigitChars == <<"0", "1", "2", "3", "4", "5", "6", "7", "8", "9">>

RECURSIVE NatToStr(_)
NatToStr(n) ==
    IF n < 10 THEN <<DigitChars[n + 1]>>
    ELSE NatToStr(n \div 10) \o <<DigitChars[(n % 10) + 1]>>

RECURSIVE padStart(_, _, _)
padStart(s, len, fill) ==
    IF Len(s) >= len THEN s ELSE padStart(<<fill>> \o s, len, fill)

startsWith(s, p) ==
    /\ Len(p) <= Len(s)
    /\ SubSeq(s, 1, Len(p)) = p

(***************************************************************************)
(* toIsoDateFromEpochSeconds: the UTC calendar date of an epoch second,    *)
(* as Date.prototype.toISOString().slice(0, 10) yields it (proleptic       *)
(* Gregorian calendar, days counted from 1970-01-01).                      *)
(***************************************************************************)
secondsPerDay == 24 * 60 * 60

CivilFromDays(days) ==
    LET z == days + 719468
        era == z \div 146097
        doe == z - era * 146097
        yoe == (doe - doe \div 1460 + doe \div 36524 - doe \div 146096) \div 365
        doy == doe - (365 * yoe + yoe \div 4 - yoe \div 100)
        mp == (5 * doy + 2) \div 153
        d == doy - (153 * mp + 2) \div 5 + 1
        m == IF mp < 10 THEN mp + 3 ELSE mp - 9
        y == yoe + era * 400 + (IF m <= 2 THEN 1 ELSE 0)
    IN  [year |-> y, month |-> m, day |-> d]

toIsoDateFromEpochSeconds(sec) ==
    LET c == CivilFromDays(sec \div secondsPerDay)
    IN  padStart(NatToStr(c.year), 4, "0") \o <<"-">>
          \o padStart(NatToStr(c.month), 2, "0") \o <<"-">>
          \o padStart(NatToStr(c.day), 2, "0")

(***************************************************************************)
(* More of String.prototype and Number.prototype, as the client uses them. *)
(***************************************************************************)
UpperChars == <<"A", "B", "C", "D", "E", "F", "G", "H", "I", "J", "K", "L", "M",
                "N", "O", "P", "Q", "R", "S", "T", "U", "V", "W", "X", "Y", "Z">>
LowerChars == <<"a", "b", "c", "d", "e", "f", "g", "h", "i", "j", "k", "l", "m",
                "n", "o", "p", "q", "r", "s", "t", "u", "v", "w", "x", "y", "z">>

LowerOf == [c \in Range(UpperChars) |->
               LowerChars[CHOOSE i \in 1 .. Len(UpperChars) : UpperChars[i] = c]]

ToLowerChar(c) == IF c \in DOMAIN LowerOf THEN LowerOf[c] ELSE c

toLowerCase(s) == [i \in 1 .. Len(s) |-> ToLowerChar(s[i])]

IsSpace(c) == c = " "

RECURSIVE trimStart(_)
trimStart(s) ==
    IF s # <<>> /\ IsSpace(Head(s)) THEN trimStart(Tail(s)) ELSE s

RECURSIVE trimEnd(_)
trimEnd(s) ==
    IF s # <<>> /\ IsSpace(s[Len(s)]) THEN trimEnd(SubSeq(s, 1, Len(s) - 1)) ELSE s

trim(s) == trimEnd(trimStart(s))

(* s.split(sep) for a one-character separator: the list of the pieces. *)
RECURSIVE SplitFrom(_, _, _)
SplitFrom(s, sep, piece) ==
    IF s = <<>> THEN <<piece>>
    ELSE IF Head(s) = sep THEN <<piece>> \o SplitFrom(Tail(s), sep, <<>>)
    ELSE SplitFrom(Tail(s), sep, Append(piece, Head(s)))

split(s, sep) == SplitFrom(s, sep, <<>>)

DigitOf == [c \in Range(DigitChars) |-> (CHOOSE i \in 1 .. 10 : DigitChars[i] = c) - 1]

IsDigit(c) == c \in DOMAIN DigitOf

DigitValue(c) == DigitOf[c]

(* Number(s) for the strings of digits the callers pass: the empty string is
   0, a string with another character is NaN (Undefined). *)
RECURSIVE DigitsToNat(_, _)
DigitsToNat(s, acc) ==
    IF s = <<>> THEN acc ELSE DigitsToNat(Tail(s), acc * 10 + DigitValue(Head(s)))

NumberOf(s) ==
    IF \A i \in 1 .. Len(s) : IsDigit(s[i]) THEN DigitsToNat(s, 0) ELSE Undefined

(* The order of UTF-16 code units among the characters of dates. *)
CharCode(c) == IF c = "-" THEN 45 ELSE IF c = "/" THEN 47 ELSE 48 + DigitValue(c)

(* a < b for strings, as JavaScript compares them. *)
RECURSIVE StrLess(_, _)
StrLess(a, b) ==
    IF b = <<>> THEN FALSE
    ELSE IF a = <<>> THEN TRUE
    ELSE IF Head(a) = Head(b) THEN StrLess(Tail(a), Tail(b))
    ELSE CharCode(Head(a)) < CharCode(Head(b))

(* amt.toFixed(2) of an amount held in thousandths: rounded to hundredths,
   half away from zero, written with two decimals. *)
toFixed2(mills) ==
    LET cents == (Abs(mills) + 5) \div 10
    IN  (IF mills < 0 THEN <<"-">> ELSE <<>>)
          \o NatToStr(cents \div 100) \o <<".">>
          \o padStart(NatToStr(cents % 100), 2, "0")

(***************************************************************************)
(* The feed (SimpleFIN bridge) as the endpoint sees it: accounts holding   *)
(* transactions.  A transaction's amount is a numeric string; `nan` marks  *)
(* one that Number() cannot read.                                          *)
(***************************************************************************)
StrTransaction == <<"T", "r", "a", "n", "s", "a", "c", "t", "i", "o", "n">>
StrAccount == <<"A", "c", "c", "o", "u", "n", "t">>
StrUnknown == <<"u", "n", "k", "n", "o", "w", "n">>
StrSimplefin == <<"s", "i", "m", "p", "l", "e", "f", "i", "n">>
StrSimpleFIN == <<"S", "i", "m", "p", "l", "e", "F", "I", "N">>
StrUncategorized ==
    <<"U", "n", "c", "a", "t", "e", "g", "o", "r", "i", "z", "e", "d">>
StrImported == <<"I", "m", "p", "o", "r", "t", "e", "d">>

FeedAccounts ==
    { [id |-> <<"c", "k">>, name |-> <<"B", "k">>] }

(* posted = 0 stands for a transaction the bridge reports without a posted
   timestamp (pending); transacted_at = 0 for the field being absent. *)
FeedTxs ==
    { [id |-> <<"1">>, posted |-> StartEpoch - 3 * secondsPerDay, transacted_at |-> 0,
       amount |-> 0 - 3500, nan |-> FALSE, description |-> <<"c", "a", "f">>],
      [id |-> <<"2">>, posted |-> StartEpoch - 40 * secondsPerDay, transacted_at |-> 0,
       amount |-> 120000, nan |-> FALSE, description |-> <<"P", "a", "y">>],
      [id |-> <<"3">>, posted |-> 0, transacted_at |-> StartEpoch - secondsPerDay,
       amount |-> 0, nan |-> FALSE, description |-> <<>>],
      [id |-> <<"4">>, posted |-> 0, transacted_at |-> 0,
       amount |-> 0, nan |-> TRUE, description |-> <<"x">>] }

(***************************************************************************)
(* fetchChunk's mapping of one feed transaction of account `acc`; `now`    *)
(* is the clock at the time of the mapping.  MapFeedTx is the entry that   *)
(* is pushed, KeepFeedTx the test `abs > 0` that precedes the push.        *)
(***************************************************************************)
(* Mutant: every feed transaction is pushed. *)
KeepFeedTxAll(t) == Abs(t.amount) >= 0

FeedAmount(t) == IF t.nan THEN 0 ELSE t.amount

KeepFeedTx(t) == Abs(FeedAmount(t)) > 0

MapFeedTx(acc, t, now) ==
    LET accName == IF acc.name # <<>> THEN acc.name ELSE StrAccount
        accId == IF acc.id # <<>> THEN acc.id ELSE StrUnknown
        posted == IF t.posted > 0 THEN t.posted
                  ELSE IF t.transacted_at > 0 THEN t.transacted_at ELSE 0
        isoDate == IF posted # 0 THEN toIsoDateFromEpochSeconds(posted)
                   ELSE toIsoDateFromEpochSeconds(now)
    IN  [externalId |-> StrSimplefin \o <<":">> \o accId \o <<":">> \o t.id,
         simplefinAccountId |-> accId,
         simplefinAccountName |-> accName,
         date |-> isoDate,
         description |->
            (IF t.description # <<>> THEN t.description ELSE StrTransaction)
              \o <<" ", "(">> \o accName \o <<")">>,
         amount |-> Abs(FeedAmount(t)),
         type |-> IF (~t.nan) /\ t.amount >= 0 THEN "income" ELSE "expense",
         category |-> StrUncategorized,
         source |-> StrSimpleFIN \o <<":">> \o accId]

(* A second purchase at the same shop on the same day for the same amount:
   another feed transaction, the same content. *)
FeedTxRepeat ==
    [id |-> <<"5">>, posted |-> StartEpoch - 3 * secondsPerDay + 60, transacted_at |-> 0,
     amount |-> 0 - 3500, nan |-> FALSE, description |-> <<"c", "a", "f">>]

RECURSIVE MapFeedTxs(_, _, _)
MapFeedTxs(acc, txns, now) ==
    IF txns = <<>> THEN <<>>
    ELSE (IF KeepFeedTx(Head(txns)) THEN <<MapFeedTx(acc, Head(txns), now)>> ELSE <<>>)
           \o MapFeedTxs(acc, Tail(txns), now)

(***************************************************************************)
(* State.                                                                  *)
(*                                                                         *)
(* Server (one user's KV record and the SimpleFIN request in flight):      *)
(*   clock, ticks         Date.now() in seconds, and how often it advanced *)
(*   kvAccessUrl          simplefinAccessUrl of the stored record: the     *)
(*                        number of the claimed credential, or Undefined   *)
(*   kvLastSyncEpoch      simplefinLastSyncEpoch of the stored record      *)
(*   nextCred             the credential the next successful claim yields  *)
(*   pc                   "idle", or "fetching" while a sync round runs    *)
(*   existing             the record requireUser read for the round        *)
(*   requestedDaysBack, end, lastSync, start, chunks                       *)
(*                        the round's locals of the same names             *)
(*   errors               the round's `errors` array: what the feed's      *)
(*                        answers listed under "errors"                    *)
(*   fetched              number of chunks whose fetchChunk has returned   *)
(*   requests             the feed requests the round has issued so far    *)
(*   imported             the round's `imported` array                     *)
(*   response             the last response the endpoints sent             *)
(*   lastCommitCred       history variable, not program state: the         *)
(*                        credential of the last round that succeeded, 0   *)
(*                        before the first                                 *)
(***************************************************************************)
VARIABLES clock, ticks, kvAccessUrl, kvLastSyncEpoch, nextCred, pc, existing,
          requestedDaysBack, end, lastSync, start, chunks, errors, fetched, requests,
          imported, response, lastCommitCred

(* The rest of the user's KV record and the save requests in flight:        *)
(*   kvDoc           <<>> while no record is stored under the user's key,   *)
(*                   else <<[passwordHash, transactions, debts, assets,     *)
(*                   categoryBudgets, recurring, openRouterKey]>>           *)
(*                   (lastUpdated, a timestamp that is only displayed, is   *)
(*                   left out)                                              *)
(*   saving          for each session, the save request the endpoint is     *)
(*                   handling for it: [pc, body, existing, status], pc      *)
(*                   "idle" or "read" (between the get and the put)         *)
(*   lastPut         history variable: <<[session, body, read, over]>> of   *)
(*                   the save whose put was processed last (its session,    *)
(*                   its request body, the record its get returned and the  *)
(*                   record its put replaced), <<>> before the first        *)
(*   otherRound      a second sync request of the same user that the        *)
(*                   endpoint is handling at the same time:                 *)
(*                   <<[existing, end]>>, the record its get returned and   *)
(*                   the time it was taken, <<>> when there is none         *)
VARIABLES kvDoc, saving, lastPut, otherRound

storeVars == <<kvDoc, saving, lastPut, otherRound>>

serverVars == <<clock, ticks, kvAccessUrl, kvLastSyncEpoch, nextCred, pc, existing,
                requestedDaysBack, end, lastSync, start, chunks, errors, fetched, requests,
                imported, response, lastCommitCred, storeVars>>

roundVars == <<existing, requestedDaysBack, end, lastSync, start, chunks, errors, fetched,
               requests, imported>>

(***************************************************************************)
(* Constants of the sync action.                                           *)
(***************************************************************************)
MAX_DAYS_BACK == 366
maxDaysPerRequest == 60
maxRangeSeconds == maxDaysPerRequest * secondsPerDay
overlapSeconds == 2 * secondsPerDay
maxRequestsPerDay == 24
defaultDaysBack == 60

(* body.daysBack as the client may send it: Undefined for a missing or
   non-numeric value, else the number after Math.floor. *)
ClampDaysBack(daysBack) ==
    LET daysBackRaw == IF daysBack = Undefined THEN defaultDaysBack ELSE daysBack
    IN  Max(1, Min(MAX_DAYS_BACK, daysBackRaw))

(* existing.simplefinLastSyncEpoch as the round reads it: a positive number,
   or null (Undefined). *)
ReadLastSync(rec) ==
    IF rec.simplefinLastSyncEpoch # Undefined /\ rec.simplefinLastSyncEpoch > 0
    THEN rec.simplefinLastSyncEpoch ELSE Undefined

(* Mutant: the last window is not cut at `end`. *)
RECURSIVE BackfillChunksUnclamped(_, _)
BackfillChunksUnclamped(s, e) ==
    IF s < e
    THEN <<[start |-> s, end |-> s + maxRangeSeconds]>>
           \o BackfillChunksUnclamped(s + maxRangeSeconds, e)
    ELSE <<>>

(* Mutant: the windows are half as wide. *)
RECURSIVE BackfillChunksHalfWidth(_, _)
BackfillChunksHalfWidth(s, e) ==
    IF s < e
    THEN <<[start |-> s, end |-> Min(e, s + (maxRangeSeconds \div 2))]>>
           \o BackfillChunksHalfWidth(s + (maxRangeSeconds \div 2), e)
    ELSE <<>>

(* for (let s = globalStart; s < end; s += maxRangeSeconds) *)
RECURSIVE BackfillChunks(_, _)
BackfillChunks(s, e) ==
    IF s < e
    THEN <<[start |-> s, end |-> Min(e, s + maxRangeSeconds)]>>
           \o BackfillChunks(s + maxRangeSeconds, e)
    ELSE <<>>

(* Mutant: the cursor is used without the overlap. *)
IncrementalStartNoOverlap(e, daysBack, last) ==
    LET maxRangeStart == e - (daysBack * secondsPerDay)
    IN  IF last # Undefined THEN Max(maxRangeStart, Max(0, last)) ELSE maxRangeStart

(* Mutant: with a cursor the window starts at the cursor less the overlap,
   however long ago that is. *)
IncrementalStartFromCursor(e, daysBack, last) ==
    LET maxRangeStart == e - (daysBack * secondsPerDay)
        incrementalStart == IF last # Undefined THEN Max(0, last - overlapSeconds) ELSE 0
    IN  IF last # Undefined THEN incrementalStart ELSE maxRangeStart

IncrementalStart(e, daysBack, last) ==
    LET maxRangeStart == e - (daysBack * secondsPerDay)
        incrementalStart == IF last # Undefined THEN Max(0, last - overlapSeconds) ELSE 0
    IN  IF last # Undefined THEN Max(maxRangeStart, incrementalStart) ELSE maxRangeStart

PlanStart(e, daysBack, last) ==
    IF daysBack > maxDaysPerRequest
    THEN Max(0, e - (daysBack * secondsPerDay))
    ELSE IncrementalStart(e, daysBack, last)

PlanChunks(e, daysBack, last) ==
    IF daysBack > maxDaysPerRequest
    THEN BackfillChunks(PlanStart(e, daysBack, last), e)
    ELSE <<[start |-> IncrementalStart(e, daysBack, last), end |-> e]>>

Reply(status, kind, txs) ==
    [status |-> status, kind |-> kind, transactions |-> txs, errors |-> <<>>]

(***************************************************************************)
(* Client (one browser session, BudgetProvider):                           *)
(*   transactions, recurring, categoryBudgets   the React state of the     *)
(*                        same names                                       *)
(*   nextId               the supply of crypto.randomUUID(): the next      *)
(*                        fresh id                                         *)
(*   syncCall             the simplefinSync call in flight, if any, with   *)
(*                        the `transactions` its closure captured          *)
(*   feedOrigin           history variable, not program state: for each    *)
(*                        ledger id appended by a feed merge, the          *)
(*                        externalId of the feed entry it was made from    *)
(*                        (the ledger entry itself does not keep it)       *)
(*   lastOp               history variable: the last ledger operation, its *)
(*                        input batch and the number of entries it added   *)
(***************************************************************************)
VARIABLES transactions, recurring, categoryBudgets, nextId, syncCall, feedOrigin, lastOp

(* The debt and asset accounts of the provider: sequences of
   [id, name, startingBalance]. *)
VARIABLES debts, assets

accountVars == <<debts, assets>>

(* What is computed from the ledger and shown, and what it was computed
   from: the two transactions handed to fingerprint and the two strings it
   gave; the props SummaryCards was shown with and the figures it
   computed. *)
VARIABLES fpArgs, fpResult, view, summary

derivedVars == <<fpArgs, fpResult, view, summary>>

(* The automatic save of the provider.                                      *)
(*   user            the logged-in user [email, key], NoUser for null       *)
(*   effectDeps      the dependencies the effect last ran with              *)
(*   timers          the timeouts set and not yet fired, oldest first, each *)
(*                   [left, payload]: milliseconds to go, and the request   *)
(*                   body captured by the callback                          *)
(*   syncTimeoutRef  the position in `timers` of the timeout the ref points *)
(*                   to, 0 when there is none or it has fired               *)
(*   saveRequest     <<[payload, after]>>: the body of the last POST        *)
(*                   /api/sync of a timeout and the time since the effect   *)
(*                   last ran; <<>> before the first                        *)
(*   burst           [since, saves, edits, span]: milliseconds since the    *)
(*                   effect last ran (counted up to SaveDelay), the         *)
(*                   requests sent since, the runs of the effect that       *)
(*                   followed one another by less than SaveDelay (counted   *)
(*                   up to 3), and the milliseconds from the first of them  *)
(*                   to the last (counted up to SaveDelay)                  *)
VARIABLES user, effectDeps, timers, syncTimeoutRef, saveRequest, burst

saveVars == <<user, effectDeps, timers, syncTimeoutRef, saveRequest, burst>>

clientVars == <<transactions, recurring, categoryBudgets, nextId, syncCall, feedOrigin,
                lastOp, accountVars, derivedVars, saveVars>>

(* What the ledger operations of simplefinSync, importCSV, finalizeImport,
   the transaction and the recurring handlers leave alone. *)
outsideLedger == <<serverVars, accountVars, derivedVars, saveVars>>

vars == <<serverVars, clientVars>>

(***************************************************************************)
(* SimpleFIN endpoint: onRequestPost of functions/api/simplefin.            *)
(* The profile dialog keeps one SimpleFIN request in flight at a time      *)
(* (simplefinBusy), so claim and disconnect are taken while no round runs. *)
(***************************************************************************)
Tick(d) ==
    /\ ticks < MaxTicks
    /\ clock' = clock + d
    /\ ticks' = ticks + 1
    /\ UNCHANGED <<kvAccessUrl, kvLastSyncEpoch, nextCred, pc, roundVars, response>>
    /\ UNCHANGED <<lastCommitCred, storeVars>>
    /\ UNCHANGED clientVars

DisconnectRequest ==
    /\ kvAccessUrl' = Undefined
    /\ kvLastSyncEpoch' = Undefined
    /\ response' = Reply(200, "disconnect-ok", <<>>)
    /\ UNCHANGED <<clock, ticks, nextCred, pc, roundVars>>
    /\ UNCHANGED <<lastCommitCred, storeVars>>
    /\ UNCHANGED clientVars

(* The same with no sync round in flight. *)
Disconnect == pc = "idle" /\ DisconnectRequest

(* Mutant: the new credential is stored and the old marker kept. *)
ClaimOkKeepsCursor ==
    /\ pc = "idle"
    /\ nextCred <= MaxClaims
    /\ kvAccessUrl' = nextCred
    /\ nextCred' = nextCred + 1
    /\ response' = Reply(200, "claim-ok", <<>>)
    /\ UNCHANGED <<clock, ticks, kvLastSyncEpoch, pc, roundVars>>
    /\ UNCHANGED <<lastCommitCred, storeVars>>
    /\ UNCHANGED clientVars

(* The claim succeeded: the bridge answered with an access URL. *)
ClaimRequestOk ==
    /\ nextCred <= MaxClaims
    /\ kvAccessUrl' = nextCred
    /\ kvLastSyncEpoch' = Undefined
    /\ nextCred' = nextCred + 1
    /\ response' = Reply(200, "claim-ok", <<>>)
    /\ UNCHANGED <<clock, ticks, pc, roundVars>>
    /\ UNCHANGED <<lastCommitCred, storeVars>>
    /\ UNCHANGED clientVars

(* The same with no sync round in flight. *)
ClaimOk == pc = "idle" /\ ClaimRequestOk

(* The token is malformed, the bridge rejects the claim, or its answer is no
   URL with credentials: status 400, nothing stored. *)
ClaimFail ==
    /\ pc = "idle"
    /\ response' = Reply(400, "claim-failed", <<>>)
    /\ UNCHANGED <<clock, ticks, kvAccessUrl, kvLastSyncEpoch, nextCred, pc, roundVars>>
    /\ UNCHANGED <<lastCommitCred, storeVars>>
    /\ UNCHANGED clientVars

(* action === 'sync' up to the first feed request. *)
SyncBegin(daysBack) ==
    /\ pc = "idle"
    /\ LET rec == [simplefinAccessUrl |-> kvAccessUrl,
                   simplefinLastSyncEpoch |-> kvLastSyncEpoch,
                   document |-> kvDoc]
           rdb == ClampDaysBack(daysBack)
           e == clock
           last == ReadLastSync(rec)
           plan == PlanChunks(e, rdb, last)
       IN  IF rec.simplefinAccessUrl = Undefined
           THEN /\ response' = Reply(400, "not-connected", <<>>)
                /\ UNCHANGED <<pc, roundVars>>
           ELSE /\ existing' = rec
                /\ requestedDaysBack' = rdb
                /\ end' = e
                /\ lastSync' = last
                /\ start' = PlanStart(e, rdb, last)
                /\ chunks' = plan
                /\ errors' = <<>>
                /\ fetched' = 0
                /\ requests' = <<>>
                /\ imported' = <<>>
                /\ IF Len(plan) > maxRequestsPerDay
                   THEN /\ response' = Reply(400, "capacity", <<>>)
                        /\ pc' = "idle"
                   ELSE /\ response' = response
                        /\ pc' = "fetching"
    /\ UNCHANGED <<clock, ticks, kvAccessUrl, kvLastSyncEpoch, nextCred>>
    /\ UNCHANGED <<lastCommitCred, storeVars>>
    /\ UNCHANGED clientVars

(* Mutant: the requests of all windows are sent without waiting for the
   answers (Promise.all over the chunks). *)
FetchChunkSendAll ==
    /\ pc = "fetching"
    /\ Len(requests) < Len(chunks)
    /\ requests' = Append(requests, chunks[Len(requests) + 1])
    /\ UNCHANGED <<clock, ticks, kvAccessUrl, kvLastSyncEpoch, nextCred, pc, existing,
                   requestedDaysBack, end, lastSync, start, chunks, errors, fetched, imported,
                   response>>
    /\ UNCHANGED <<lastCommitCred, storeVars>>
    /\ UNCHANGED clientVars

(* for (const c of chunks) { await fetchChunk(c.start, c.end); }: the next
   iteration calls fetchChunk, which sends the GET for its window.  The
   iteration before it has returned: no request is waiting for its answer. *)
FetchChunkSend ==
    /\ pc = "fetching"
    /\ Len(requests) = fetched
    /\ Len(requests) < Len(chunks)
    /\ requests' = Append(requests, chunks[Len(requests) + 1])
    /\ UNCHANGED <<clock, ticks, kvAccessUrl, kvLastSyncEpoch, nextCred, pc, existing,
                   requestedDaysBack, end, lastSync, start, chunks, errors, fetched, imported,
                   response>>
    /\ UNCHANGED <<lastCommitCred, storeVars>>
    /\ UNCHANGED clientVars

(* fetchChunk(c.start, c.end) returns: the feed answered 200 with
   chunkErrors under "errors" and `txns` in the one account. *)
FetchChunkReturns(acc, txns, chunkErrors) ==
    /\ pc = "fetching"
    /\ fetched < Len(requests)
    /\ Len(imported) + Len(txns) <= MaxImported
    /\ errors' = errors \o chunkErrors
    /\ imported' = imported \o MapFeedTxs(acc, txns, clock)
    /\ fetched' = fetched + 1
    /\ UNCHANGED <<clock, ticks, kvAccessUrl, kvLastSyncEpoch, nextCred, pc, existing,
                   requestedDaysBack, end, lastSync, start, chunks, requests, response>>
    /\ UNCHANGED <<lastCommitCred, storeVars>>
    /\ UNCHANGED clientVars

(* The same with an answer that lists no errors. *)
FetchChunkOk(acc, txns) == FetchChunkReturns(acc, txns, <<>>)

(* Mutant: a failing round keeps the progress of the windows it fetched. *)
FetchChunkFailPartialAdvance ==
    /\ pc = "fetching"
    /\ fetched < Len(requests)
    /\ pc' = "idle"
    /\ response' = Reply(400, "fetch-failed", <<>>)
    /\ kvLastSyncEpoch' = IF fetched > 0 THEN chunks[fetched].end ELSE kvLastSyncEpoch
    /\ UNCHANGED <<clock, ticks, kvAccessUrl, nextCred, existing, requestedDaysBack,
                   end, lastSync, start, chunks, errors, fetched, requests, imported>>
    /\ UNCHANGED <<lastCommitCred, storeVars>>
    /\ UNCHANGED clientVars

(* Mutant: the answer to a failed round carries what the earlier windows
   brought. *)
FetchChunkFailReturnsFetched ==
    /\ pc = "fetching"
    /\ fetched < Len(requests)
    /\ pc' = "idle"
    /\ response' = Reply(400, "fetch-failed", imported)
    /\ UNCHANGED <<clock, ticks, kvAccessUrl, kvLastSyncEpoch, nextCred, existing,
                   requestedDaysBack, end, lastSync, start, chunks, errors, fetched, requests,
                   imported>>
    /\ UNCHANGED <<lastCommitCred, storeVars>>
    /\ UNCHANGED clientVars

(* fetchChunk throws (the request fails, the status is not ok, the body is
   not JSON): the handler's catch answers 400. *)
FetchChunkFail ==
    /\ pc = "fetching"
    /\ fetched < Len(requests)
    /\ pc' = "idle"
    /\ response' = Reply(400, "fetch-failed", <<>>)
    /\ UNCHANGED <<clock, ticks, kvAccessUrl, kvLastSyncEpoch, nextCred, existing,
                   requestedDaysBack, end, lastSync, start, chunks, errors, fetched, requests,
                   imported>>
    /\ UNCHANGED <<lastCommitCred, storeVars>>
    /\ UNCHANGED clientVars

(* Mutant: the marker is the time of the commit, not the round's `end`. *)
SyncCommitAtCommitTime ==
    /\ pc = "fetching"
    /\ fetched = Len(chunks)
    /\ kvAccessUrl' = existing.simplefinAccessUrl
    /\ kvLastSyncEpoch' = clock
    /\ pc' = "idle"
    /\ response' = [Reply(200, "sync-ok", imported) EXCEPT !.errors = errors]
    /\ UNCHANGED <<clock, ticks, nextCred, roundVars>>
    /\ lastCommitCred' = existing.simplefinAccessUrl
    /\ kvDoc' = existing.document
    /\ UNCHANGED <<saving, lastPut, otherRound>>
    /\ UNCHANGED clientVars

(* All chunks fetched: persist the marker and answer. *)
SyncCommit ==
    /\ pc = "fetching"
    /\ fetched = Len(chunks)
    /\ kvAccessUrl' = existing.simplefinAccessUrl
    /\ kvLastSyncEpoch' = end
    /\ pc' = "idle"
    /\ response' = [Reply(200, "sync-ok", imported) EXCEPT !.errors = errors]
    /\ UNCHANGED <<clock, ticks, nextCred, roundVars>>
    /\ lastCommitCred' = existing.simplefinAccessUrl
    /\ kvDoc' = existing.document
    /\ UNCHANGED <<saving, lastPut, otherRound>>
    /\ UNCHANGED clientVars

(***************************************************************************)
(* Document save endpoint (onRequestPost of functions/api/sync, first file *)
(* of the concatenation).  A request body field is [ok, value]: ok says    *)
(* that the JSON value has the kind the handler tests for (a string, an    *)
(* array, an object that is no array).                                     *)
(***************************************************************************)
Json(ok, value) == [ok |-> ok, value |-> value]

(* SHA-256 in hex: distinct passwords give distinct digests. *)
hashPassword(pw) == <<"sha256">> \o pw

ArrayOrEmpty(field) == IF field.ok THEN field.value ELSE <<>>

(* The constants of the handler's first lines. *)
SaveFields(body) ==
    [email |-> IF body.email.ok THEN body.email.value ELSE <<>>,
     password |-> IF body.password.ok THEN body.password.value ELSE <<>>,
     transactions |-> ArrayOrEmpty(body.transactions),
     debts |-> ArrayOrEmpty(body.debts),
     assets |-> ArrayOrEmpty(body.assets),
     recurring |-> ArrayOrEmpty(body.recurring),
     categoryBudgets |-> ArrayOrEmpty(body.categoryBudgets)]

(* Mutant: a collection the request leaves empty keeps its stored value. *)
SaveDataKeepsStored(f, stored) ==
    LET old(name, new) == IF new = <<>> /\ stored # <<>> THEN stored[1][name] ELSE new
    IN  [passwordHash |-> hashPassword(f.password),
         transactions |-> old("transactions", f.transactions),
         debts |-> old("debts", f.debts),
         assets |-> old("assets", f.assets),
         categoryBudgets |-> old("categoryBudgets", f.categoryBudgets),
         recurring |-> old("recurring", f.recurring),
         openRouterKey |-> IF stored = <<>> THEN <<>> ELSE stored[1].openRouterKey]

(* const data: SyncData = { ... } *)
SaveData(f, stored) ==
    [passwordHash |-> hashPassword(f.password),
     transactions |-> f.transactions,
     debts |-> f.debts,
     assets |-> f.assets,
     categoryBudgets |-> f.categoryBudgets,
     recurring |-> f.recurring,
     openRouterKey |-> IF stored = <<>> THEN <<>> ELSE stored[1].openRouterKey]

SaveStatus(f, stored) ==
    IF f.email = <<>> \/ f.password = <<>> THEN 400
    ELSE IF stored # <<>> /\ stored[1].passwordHash # hashPassword(f.password) THEN 401
    ELSE 200

NoBody ==
    [email |-> Json(FALSE, <<>>), password |-> Json(FALSE, <<>>),
     transactions |-> Json(FALSE, <<>>), debts |-> Json(FALSE, <<>>),
     assets |-> Json(FALSE, <<>>), categoryBudgets |-> Json(FALSE, <<>>),
     recurring |-> Json(FALSE, <<>>)]

IdleSave == [pc |-> "idle", body |-> NoBody, existing |-> <<>>, status |-> 0]

(* The handler of session s up to the answer of BUDGET_KV.get: the fields
   are read, the record is fetched and the password compared. *)
SaveGet(s, body) ==
    /\ LET status == SaveStatus(SaveFields(body), kvDoc)
       IN  saving' = [saving EXCEPT ![s] =
                         IF status = 200
                         THEN [pc |-> "read", body |-> body, existing |-> kvDoc,
                               status |-> 0]
                         ELSE [IdleSave EXCEPT !.status = status]]
    /\ UNCHANGED <<kvDoc, lastPut, otherRound>>
    /\ UNCHANGED <<clock, ticks, kvAccessUrl, kvLastSyncEpoch, nextCred, pc, roundVars,
                   response, lastCommitCred>>
    /\ UNCHANGED clientVars

(* A request with `body` arrives on session s, which has none in flight. *)
SaveBegin(s, body) == saving[s].pc = "idle" /\ SaveGet(s, body)

(* BUDGET_KV.put(key, JSON.stringify(data)) of session s and the answer.
   The record is rebuilt from the request and existing.openRouterKey alone,
   so it has no simplefinAccessUrl and no simplefinLastSyncEpoch
   afterwards. *)
SavePut(s) ==
    /\ saving[s].pc = "read"
    /\ kvDoc' = <<SaveData(SaveFields(saving[s].body), saving[s].existing)>>
    /\ kvAccessUrl' = Undefined
    /\ kvLastSyncEpoch' = Undefined
    /\ saving' = [saving EXCEPT ![s] = [IdleSave EXCEPT !.status = 200]]
    /\ lastPut' = <<[session |-> s, body |-> saving[s].body,
                     read |-> saving[s].existing, over |-> kvDoc]>>
    /\ UNCHANGED <<clock, ticks, nextCred, pc, roundVars, response, lastCommitCred,
                   otherRound>>
    /\ UNCHANGED clientVars

StoredUser == [email |-> <<"a", "@", "x">>, key |-> <<"p", "w">>]

(* syncToCloud's body: JSON.stringify({ email, password, transactions, debts,
   assets, categoryBudgets, recurring }) of the provider's state. *)
ClientBody ==
    [email |-> Json(TRUE, StoredUser.email), password |-> Json(TRUE, StoredUser.key),
     transactions |-> Json(TRUE, transactions), debts |-> Json(TRUE, debts),
     assets |-> Json(TRUE, assets), categoryBudgets |-> Json(TRUE, categoryBudgets),
     recurring |-> Json(TRUE, recurring)]

(* A save of the browser session, from the request to the answer.  The     *)
(* client's debounce timer issues it on its own, also while a sync round   *)
(* is running.                                                             *)
SaveDocument ==
    /\ SaveStatus(SaveFields(ClientBody), kvDoc) = 200
    /\ kvDoc' = <<SaveData(SaveFields(ClientBody), kvDoc)>>
    /\ kvAccessUrl' = Undefined
    /\ kvLastSyncEpoch' = Undefined
    /\ response' = Reply(200, "save-ok", <<>>)
    /\ UNCHANGED <<clock, ticks, nextCred, pc, roundVars>>
    /\ UNCHANGED <<lastCommitCred, saving, lastPut, otherRound>>
    /\ UNCHANGED clientVars

(***************************************************************************)
(* Initial states.                                                         *)
(***************************************************************************)
NoUser == [email |-> <<>>, key |-> <<>>]

(* Nobody is logged in, no timeout is set. *)
InitSave ==
    /\ user = NoUser
    /\ effectDeps = <<>>
    /\ timers = <<>>
    /\ syncTimeoutRef = 0
    /\ saveRequest = <<>>
    /\ burst = [since |-> 0, saves |-> 0, edits |-> 0, span |-> 0]

(* The provider with nothing stored in the browser. *)
InitProvider ==
    /\ transactions = <<>>
    /\ recurring = <<>>
    /\ categoryBudgets = <<>>
    /\ nextId = 1
    /\ syncCall = [busy |-> FALSE, transactions |-> <<>>]
    /\ feedOrigin = <<>>
    /\ lastOp = [op |-> "init"]
    /\ debts = <<>>
    /\ assets = <<>>
    /\ fpArgs = <<>>
    /\ fpResult = <<>>
    /\ view = <<>>
    /\ summary = <<>>

InitClient == InitProvider /\ InitSave

(* The same right after login has set the user. *)
InitLoggedIn ==
    /\ InitProvider
    /\ user = StoredUser
    /\ effectDeps = <<>>
    /\ timers = <<>>
    /\ syncTimeoutRef = 0
    /\ saveRequest = <<>>
    /\ burst = [since |-> 0, saves |-> 0, edits |-> 0, span |-> 0]

Sessions == {1, 2}

(* The user has an account: a record with the password's digest and a
   document that is still empty. *)
EmptyDocument ==
    [passwordHash |-> hashPassword(StoredUser.key), transactions |-> <<>>,
     debts |-> <<>>, assets |-> <<>>, categoryBudgets |-> <<>>, recurring |-> <<>>,
     openRouterKey |-> <<>>]

InitStore ==
    /\ kvDoc = <<EmptyDocument>>
    /\ saving = [s \in Sessions |-> IdleSave]
    /\ lastPut = <<>>
    /\ otherRound = <<>>

InitRound ==
    /\ pc = "idle"
    /\ existing = [simplefinAccessUrl |-> Undefined, simplefinLastSyncEpoch |-> Undefined,
                   document |-> <<>>]
    /\ requestedDaysBack = defaultDaysBack
    /\ end = 0
    /\ lastSync = Undefined
    /\ start = 0
    /\ chunks = <<>>
    /\ errors = <<>>
    /\ fetched = 0
    /\ requests = <<>>
    /\ imported = <<>>
    /\ response = Reply(200, "none", <<>>)
    /\ lastCommitCred = 0

(* The user's record exists and has never been connected to the feed. *)
InitServer ==
    /\ clock = StartEpoch
    /\ ticks = 0
    /\ kvAccessUrl = Undefined
    /\ kvLastSyncEpoch = Undefined
    /\ nextCred = 1
    /\ InitRound
    /\ InitStore

(***************************************************************************)
(* SpecSync: the endpoint under a small set of requests.                   *)
(***************************************************************************)
TickSeconds == {3600, 10 * secondsPerDay}

DaysBackInputs == {Undefined, 0, 5, 150, 5000}

FeedResponses == {<<>>} \cup { <<t>> : t \in FeedTxs }

InitSync == InitServer /\ InitClient

NextSync ==
    \/ \E d \in TickSeconds : Tick(d)
    \/ Disconnect
    \/ ClaimOk
    \/ ClaimFail
    \/ \E daysBack \in DaysBackInputs : SyncBegin(daysBack)
    \/ FetchChunkSend
    \/ \E acc \in FeedAccounts, txns \in FeedResponses : FetchChunkOk(acc, txns)
    \/ FetchChunkFail
    \/ SyncCommit
    \/ SaveDocument

SpecSync == InitSync /\ [][NextSync]_vars

(***************************************************************************)
(* SpecPlan: the round planner over every daysBack the endpoint accepts,   *)
(* from stored cursors of different ages.  A record with a cursor d days   *)
(* old is what a round that succeeded d days ago leaves behind.            *)
(***************************************************************************)
MaxDaysBackInput == 400

PlanCursorAges == {0, 1, 2 * secondsPerDay, 10 * secondsPerDay, 59 * secondsPerDay + 7,
                   100 * secondsPerDay}

InitPlan ==
    /\ clock \in {StartEpoch, StartEpoch + 3600}
    /\ ticks = 0
    /\ kvAccessUrl = 1
    /\ kvLastSyncEpoch \in {Undefined} \cup { StartEpoch - a : a \in PlanCursorAges }
    /\ nextCred = 2
    /\ InitRound
    /\ InitStore
    /\ InitClient

(* One round per behaviour: the plan is a function of the stored record, the
   clock and daysBack, all drawn above. *)
PlanRound(daysBack) ==
    /\ response.kind = "none"
    /\ SyncBegin(daysBack)

NextPlan ==
    \/ \E daysBack \in {Undefined} \cup (0 .. MaxDaysBackInput) : PlanRound(daysBack)
    \/ FetchChunkSend
    \/ \E acc \in FeedAccounts : FetchChunkOk(acc, <<>>)
    \/ FetchChunkFail
    \/ SyncCommit

SpecPlan == InitPlan /\ [][NextPlan]_vars

(***************************************************************************)
(* C4.  Backfill (requestedDaysBack > 60): the planned windows start at    *)
(* now - requestedDaysBack, each window is non-empty and starts where the  *)
(* previous one ends, and the last one ends at now, so that together they  *)
(* cover [now - requestedDaysBack, now) exactly once.                      *)
(***************************************************************************)
RoundPlanned == chunks # <<>>

BackfillCoversRangeOnce ==
    (RoundPlanned /\ requestedDaysBack > maxDaysPerRequest) =>
        /\ chunks[1].start = end - requestedDaysBack * secondsPerDay
        /\ chunks[Len(chunks)].end = end
        /\ \A i \in 1 .. Len(chunks) : chunks[i].start < chunks[i].end
        /\ \A i \in 1 .. Len(chunks) - 1 : chunks[i + 1].start = chunks[i].end

BackfillThreeWindowsPlanned ==
    /\ pc = "fetching"
    /\ requestedDaysBack = 150
    /\ Len(chunks) = 3
    /\ chunks[3].end - chunks[3].start = 30 * secondsPerDay

(***************************************************************************)
(* C8.  Incremental (requestedDaysBack <= 60): the plan is the single      *)
(* window [start, now) with start = now - requestedDaysBack when the       *)
(* record has no cursor and max(now - requestedDaysBack,                   *)
(* max(0, cursor - 2 days)) when it has one, and the round issues exactly  *)
(* that one request.                                                       *)
(***************************************************************************)
ExpectedIncrementalStart ==
    LET cursor == existing.simplefinLastSyncEpoch
        floor == end - requestedDaysBack * 86400
    IN  IF cursor = Undefined THEN floor
        ELSE Max(floor, Max(0, cursor - 2 * 86400))

IncrementalSingleWindow ==
    (RoundPlanned /\ requestedDaysBack <= maxDaysPerRequest) =>
        /\ chunks = <<[start |-> ExpectedIncrementalStart, end |-> end]>>
        /\ requests \in {<<>>, chunks}
        /\ (pc = "idle" /\ response.kind = "sync-ok") => requests = chunks

IncrementalExampleSynced ==
    /\ pc = "idle"
    /\ response.kind = "sync-ok"
    /\ requestedDaysBack = 60
    /\ existing.simplefinLastSyncEpoch = end - 10 * secondsPerDay
    /\ requests = <<[start |-> end - 12 * secondsPerDay, end |-> end]>>

(***************************************************************************)
(* C23.  Backfill: the requests sent so far are the first windows of the   *)
(* plan, in the plan's order, and at most one of them is waiting for its   *)
(* answer; when the round has succeeded they are the plan, one request per *)
(* window.  Every window but the last is maxRangeSeconds wide, the last is *)
(* not wider, and 150 days give windows of 60, 60 and 30 days.             *)
(***************************************************************************)
Width(c) == c.end - c.start

BackfillRequestsInOrder ==
    requestedDaysBack > maxDaysPerRequest =>
        /\ Len(requests) <= Len(chunks)
        /\ requests = SubSeq(chunks, 1, Len(requests))
        /\ Len(requests) - fetched \in {0, 1}
        /\ (pc = "idle" /\ response.kind = "sync-ok") => requests = chunks
        /\ \A k \in 1 .. (Len(chunks) - 1) :
              /\ Width(chunks[k]) = maxRangeSeconds
              /\ chunks[k].start < chunks[k + 1].start
        /\ chunks # <<>> =>
              /\ Width(chunks[Len(chunks)]) > 0
              /\ Width(chunks[Len(chunks)]) <= maxRangeSeconds
        /\ (requestedDaysBack = 150 /\ chunks # <<>>) =>
              [k \in 1 .. Len(chunks) |-> Width(chunks[k])]
                 = <<60 * secondsPerDay, 60 * secondsPerDay, 30 * secondsPerDay>>

(* The second of the three windows of a 150-day backfill has been requested
   after the first was answered, and is waiting for its answer. *)
SecondWindowRequestedAfterFirstAnswer ==
    /\ pc = "fetching"
    /\ requestedDaysBack = 150
    /\ Len(chunks) = 3
    /\ fetched = 1
    /\ requests = SubSeq(chunks, 1, 2)

(***************************************************************************)
(* C24.  Every request a round has sent, backfill or incremental, with or  *)
(* without a stored cursor, asks for a range that is not empty and not     *)
(* longer than maxRangeSeconds.                                            *)
(***************************************************************************)
RequestsWithinCap ==
    \A k \in 1 .. Len(requests) :
        /\ requests[k].start < requests[k].end
        /\ requests[k].end - requests[k].start <= maxRangeSeconds

(* An incremental round of 60 days whose cursor is older than that: the one
   request spans exactly the cap. *)
OldCursorRequestAtCap ==
    /\ requestedDaysBack = maxDaysPerRequest
    /\ lastSync # Undefined
    /\ lastSync < end - maxRangeSeconds
    /\ Len(requests) = 1
    /\ requests[1].end - requests[1].start = maxRangeSeconds

(***************************************************************************)
(* C26.  An answer of the feed adds to the round's result one entry for    *)
(* each of its transactions whose amount is a number other than zero, in   *)
(* the answer's order, and none for the others.  The entry of transaction  *)
(* t of account a has externalId simplefin:<a.id>:<t.id>, the absolute     *)
(* value of t's amount, and type income for a positive and expense for a   *)
(* negative amount; so every entry of a round has an amount above zero.    *)
(***************************************************************************)
HasAmount(t) == (~t.nan) /\ t.amount # 0

EntryOfFeedTx(entry, acc, t) ==
    /\ entry.externalId
          = <<"s", "i", "m", "p", "l", "e", "f", "i", "n", ":">> \o acc.id \o <<":">> \o t.id
    /\ entry.amount = (IF t.amount < 0 THEN 0 - t.amount ELSE t.amount)
    /\ entry.type = (IF t.amount >= 0 THEN "income" ELSE "expense")

AmountsAboveZero ==
    /\ \A k \in 1 .. Len(imported) : imported[k].amount > 0
    /\ \A k \in 1 .. Len(response.transactions) : response.transactions[k].amount > 0

FeedEntriesMapped ==
    /\ []AmountsAboveZero
    /\ [][\A acc \in FeedAccounts, txns \in FeedResponses :
             FetchChunkOk(acc, txns) =>
                 LET kept == SelectSeq(txns, HasAmount)
                 IN  /\ Len(imported') = Len(imported) + Len(kept)
                     /\ SubSeq(imported', 1, Len(imported)) = imported
                     /\ \A k \in 1 .. Len(kept) :
                           EntryOfFeedTx(imported'[Len(imported) + k], acc, kept[k])]_vars

(* A round has returned the entry of a feed transaction of -3.50: an
   expense of 3.50. *)
NegativeFeedAmountReturnedAsExpense ==
    /\ response.kind = "sync-ok"
    /\ Len(response.transactions) = 1
    /\ response.transactions[1].externalId
          = <<"s", "i", "m", "p", "l", "e", "f", "i", "n", ":", "c", "k", ":", "1">>
    /\ response.transactions[1].amount = 3500
    /\ response.transactions[1].type = "expense"

(***************************************************************************)
(* C6.  A round that fails never advances the cursor: the step in which a  *)
(* window's request fails, and every step of a round before its commit,    *)
(* leaves the stored simplefinLastSyncEpoch (and the credential) as it     *)
(* was.                                                                    *)
(***************************************************************************)
RoundStepBeforeCommit ==
    \/ \E daysBack \in DaysBackInputs : SyncBegin(daysBack)
    \/ FetchChunkSend
    \/ \E acc \in FeedAccounts, txns \in FeedResponses : FetchChunkOk(acc, txns)
    \/ FetchChunkFail

FailedRoundKeepsCursor ==
    [][RoundStepBeforeCommit => UNCHANGED <<kvLastSyncEpoch, kvAccessUrl>>]_vars

(* The middle window of a three-window backfill failed while a cursor was
   stored. *)
MiddleWindowFailedWithCursor ==
    /\ pc = "idle"
    /\ response.kind = "fetch-failed"
    /\ Len(chunks) = 3
    /\ fetched = 1
    /\ Len(requests) = 2
    /\ kvLastSyncEpoch # Undefined

(***************************************************************************)
(* C7.  Right after a round in which every window succeeded, the stored    *)
(* cursor is the round's `end`, the clock read when the round began.       *)
(***************************************************************************)
SuccessSetsCursorToRoundEnd ==
    (pc = "idle" /\ response.kind = "sync-ok") =>
        /\ kvLastSyncEpoch = end
        /\ end = chunks[Len(chunks)].end
        /\ fetched = Len(chunks)

(* A backfill round succeeded, returned a transaction dated before the round,
   and the clock moved on while it ran. *)
BackfillSucceededAfterClockMoved ==
    /\ pc = "idle"
    /\ response.kind = "sync-ok"
    /\ Len(chunks) = 3
    /\ response.transactions # <<>>
    /\ clock > end
    /\ kvLastSyncEpoch = end

(***************************************************************************)
(* C9.  Connect stores the new credential and clears the cursor,           *)
(* disconnect clears both, and a round that runs before any round has      *)
(* succeeded under the current credential reads no lastSyncEpoch.          *)
(***************************************************************************)
ConnectResetsCursor ==
    /\ response.kind = "claim-ok" =>
          /\ kvAccessUrl = nextCred - 1
          /\ kvLastSyncEpoch = Undefined
    /\ response.kind = "disconnect-ok" =>
          /\ kvAccessUrl = Undefined
          /\ kvLastSyncEpoch = Undefined
    /\ (pc = "fetching" /\ lastCommitCred # existing.simplefinAccessUrl) =>
          /\ lastSync = Undefined
          /\ existing.simplefinLastSyncEpoch = Undefined

(* The first round under the second credential, after a round under the
   first one had succeeded. *)
FirstRoundAfterReconnect ==
    /\ pc = "fetching"
    /\ existing.simplefinAccessUrl = 2
    /\ lastCommitCred = 1
    /\ lastSync = Undefined

(***************************************************************************)
(* The ledger in the browser (BudgetProvider).                             *)
(*                                                                         *)
(* A Transaction is [id, date, description, amount, type, category,        *)
(* debtAccountId, assetAccountId, recurringId]; an optional field that is  *)
(* absent is Undefined.                                                    *)
(***************************************************************************)
Transaction(id, date, description, amount, type, category, debt, asset, rule) ==
    [id |-> id, date |-> date, description |-> description, amount |-> amount,
     type |-> type, category |-> category, debtAccountId |-> debt,
     assetAccountId |-> asset, recurringId |-> rule]

(* a || b for strings *)
OrElse(a, b) == IF a # <<>> THEN a ELSE b

(* Mutant: description and category are lower-cased but not trimmed. *)
fingerprintNoTrim(date, description, amount, type, category) ==
    date \o <<"|">> \o <<type>> \o <<"|">> \o toFixed2(amount) \o <<"|">>
      \o toLowerCase(description) \o <<"|">> \o toLowerCase(category)

(* simplefinSync's fingerprint. The type is one token of the string. *)
fingerprint(date, description, amount, type, category) ==
    date \o <<"|">> \o <<type>> \o <<"|">> \o toFixed2(amount) \o <<"|">>
      \o toLowerCase(trim(description)) \o <<"|">> \o toLowerCase(trim(category))

FingerprintOfStored(t) ==
    fingerprint(t.date, t.description, t.amount, t.type, t.category)

FingerprintOfIncoming(t) ==
    fingerprint(t.date, t.description, t.amount, t.type,
                OrElse(t.category, StrUncategorized))

(* Mutant: every incoming entry passes the filter. *)
RECURSIVE FilterIncomingNoCheck(_, _)
FilterIncomingNoCheck(incoming, seen) ==
    IF incoming = <<>> THEN <<>>
    ELSE <<Head(incoming)>> \o FilterIncomingNoCheck(Tail(incoming), seen)

(* Mutant: the seen-set is the ledger's alone; accepted entries are not
   added to it. *)
RECURSIVE FilterIncomingSeenFixed(_, _)
FilterIncomingSeenFixed(incoming, seen) ==
    IF incoming = <<>> THEN <<>>
    ELSE (IF FingerprintOfIncoming(Head(incoming)) \in seen THEN <<>>
          ELSE <<Head(incoming)>>)
           \o FilterIncomingSeenFixed(Tail(incoming), seen)

(* incoming.filter(t => { if (existing.has(fp)) return false;
                          existing.add(fp); return true; }) *)
RECURSIVE FilterIncoming(_, _)
FilterIncoming(incoming, seen) ==
    IF incoming = <<>> THEN <<>>
    ELSE LET fp == FingerprintOfIncoming(Head(incoming))
         IN  IF fp \in seen
             THEN FilterIncoming(Tail(incoming), seen)
             ELSE <<Head(incoming)>>
                    \o FilterIncoming(Tail(incoming), seen \cup {fp})

Today == toIsoDateFromEpochSeconds(clock)

(* .map(t => ({ id: crypto.randomUUID(), ... })) of the accepted entries,
   the k-th taking the id firstId + k - 1. *)
StoredFromIncoming(accepted, firstId) ==
    [k \in 1 .. Len(accepted) |->
        LET t == accepted[k]
        IN  Transaction(firstId + k - 1,
                        OrElse(t.date, Today),
                        OrElse(t.description, StrImported),
                        t.amount,
                        t.type,
                        OrElse(t.category, StrUncategorized),
                        Undefined, Undefined, Undefined)]

(***************************************************************************)
(* simplefinSync in the browser.  The call captures `transactions` of the  *)
(* render it was made in; the response is merged against that capture and  *)
(* appended to the state current at that time.                             *)
(***************************************************************************)
RECURSIVE OriginOf(_, _, _)
OriginOf(accepted, firstId, k) ==
    IF k > Len(accepted) THEN <<>>
    ELSE ((firstId + k - 1) :> accepted[k].externalId) @@ OriginOf(accepted, firstId, k + 1)

SimplefinSyncCall ==
    /\ user # NoUser
    /\ ~syncCall.busy
    /\ syncCall' = [busy |-> TRUE, transactions |-> transactions]
    /\ UNCHANGED <<transactions, recurring, categoryBudgets, nextId, feedOrigin, lastOp>>
    /\ UNCHANGED outsideLedger

(* The endpoint answered 200 with `incoming` as its transactions. *)
SimplefinSyncMerge(incoming) ==
    /\ syncCall.busy
    /\ LET seen == { FingerprintOfStored(t) : t \in Range(syncCall.transactions) }
           accepted == FilterIncoming(incoming, seen)
           toAdd == StoredFromIncoming(accepted, nextId)
       IN  /\ Len(transactions) + Len(toAdd) <= MaxLedger
           /\ transactions' = IF Len(toAdd) > 0 THEN transactions \o toAdd ELSE transactions
           /\ nextId' = nextId + Len(toAdd)
           /\ feedOrigin' = OriginOf(accepted, nextId, 1) @@ feedOrigin
           /\ lastOp' = [op |-> "merge", batch |-> incoming, added |-> Len(toAdd),
                         quiet |-> (transactions = syncCall.transactions),
                         repeat |-> (lastOp.op = "merge" /\ lastOp.batch = incoming
                                       /\ lastOp.quiet)]
    /\ syncCall' = [busy |-> FALSE, transactions |-> <<>>]
    /\ UNCHANGED <<recurring, categoryBudgets>>
    /\ UNCHANGED outsideLedger

(* The endpoint answered with an error, or the request failed. *)
SimplefinSyncError ==
    /\ syncCall.busy
    /\ syncCall' = [busy |-> FALSE, transactions |-> <<>>]
    /\ UNCHANGED <<transactions, recurring, categoryBudgets, nextId, feedOrigin, lastOp>>
    /\ UNCHANGED outsideLedger

(* Mutant: the entry is replaced by `updated`, id and all. *)
editTransactionReplacesId(i, updated) ==
    /\ i \in 1 .. Len(transactions)
    /\ transactions' = [transactions EXCEPT ![i] = [updated EXCEPT !.id = 0]]
    /\ lastOp' = [op |-> "edit"]
    /\ UNCHANGED <<recurring, categoryBudgets, nextId, syncCall, feedOrigin>>
    /\ UNCHANGED outsideLedger

(* editTransaction(id, updated): the entry at position i gets the fields of
   `updated` and keeps its id. *)
editTransaction(i, updated) ==
    /\ i \in 1 .. Len(transactions)
    /\ transactions' = [transactions EXCEPT ![i] = [updated EXCEPT !.id = transactions[i].id]]
    /\ lastOp' = [op |-> "edit"]
    /\ UNCHANGED <<recurring, categoryBudgets, nextId, syncCall, feedOrigin>>
    /\ UNCHANGED outsideLedger

(***************************************************************************)
(* importCSV.  A file is [layout, rows, budgets]: `layout` says whether a  *)
(* row holding "Date of Transaction" was found ("known") or not            *)
(* ("generic"); `rows` are the rows below the header; `budgets` the rows   *)
(* below a "Budget Target" header, if any.  A numeric cell is              *)
(* [empty, nan, value]: whether the cell is empty, and what parseFloat     *)
(* gives for it after "$" and "," are removed.                             *)
(***************************************************************************)
Cell(v) == [empty |-> FALSE, nan |-> FALSE, value |-> v]
EmptyCell == [empty |-> TRUE, nan |-> TRUE, value |-> 0]

(* row[idx] ? parseFloat(...) : 0, with NaN > 0 being false *)
PositiveOf(cell) == IF cell.empty \/ cell.nan THEN 0 ELSE cell.value

(* parseFloat(...) || 0 *)
FloatOrZero(cell) == IF cell.nan THEN 0 ELSE cell.value

StrLoan == <<"l", "o", "a", "n">>
StrDebt == <<"d", "e", "b", "t">>

RECURSIVE includes(_, _)
includes(s, sub) ==
    IF Len(s) < Len(sub) THEN FALSE
    ELSE startsWith(s, sub) \/ includes(Tail(s), sub)

(* The date of a row of the known layout: M/D/YYYY, M/D/YY or M/D. *)
YearOf(sec) == padStart(NatToStr(CivilFromDays(sec \div secondsPerDay).year), 4, "0")

KnownLayoutDate(dateStr) ==
    LET parts == split(dateStr, "/")
    IN  IF Len(parts) >= 2
        THEN LET month == padStart(parts[1], 2, "0")
                 day == padStart(parts[2], 2, "0")
                 year0 == IF Len(parts) = 3 THEN parts[3] ELSE YearOf(clock)
                 year == IF Len(year0) = 2 THEN <<"2", "0">> \o year0 ELSE year0
             IN  year \o <<"-">> \o month \o <<"-">> \o day
        ELSE Today

KnownLayoutAmount(row) ==
    IF PositiveOf(row.income) > 0 THEN PositiveOf(row.income)
    ELSE IF PositiveOf(row.debit) > 0 THEN PositiveOf(row.debit) ELSE 0

KnownLayoutType(row, category) ==
    IF PositiveOf(row.income) > 0 THEN "income"
    ELSE IF PositiveOf(row.debit) > 0
            /\ (includes(toLowerCase(category), StrLoan)
                  \/ includes(toLowerCase(category), StrDebt))
         THEN "debt-payment"
         ELSE "expense"

(* The entries of the rows of the known layout, in order, ids from `id`. *)
RECURSIVE ParseKnownRows(_, _)
ParseKnownRows(rows, id) ==
    IF rows = <<>> THEN <<>>
    ELSE LET row == Head(rows)
             category == OrElse(row.category, StrUncategorized)
         IN  IF row.date = <<>> \/ ~(KnownLayoutAmount(row) > 0)
             THEN ParseKnownRows(Tail(rows), id)
             ELSE <<Transaction(id, KnownLayoutDate(row.date),
                                OrElse(row.description, StrImported),
                                KnownLayoutAmount(row),
                                KnownLayoutType(row, category),
                                category, Undefined, Undefined, Undefined)>>
                    \o ParseKnownRows(Tail(rows), id + 1)

(* row[typeIdx]?.toLowerCase() || 'expense', for the type cells of the model *)
LowerType(cell) ==
    CASE cell = "" -> "expense"
      [] cell = "Expense" -> "expense"
      [] cell = "Income" -> "income"
      [] cell = "Debt" -> "debt"
      [] OTHER -> cell

(* The generic fallback: the cells are taken as they are. *)
RECURSIVE ParseGenericRows(_, _)
ParseGenericRows(rows, id) ==
    IF rows = <<>> THEN <<>>
    ELSE LET row == Head(rows)
         IN  IF row.date = <<>>
             THEN ParseGenericRows(Tail(rows), id)
             ELSE <<Transaction(id, row.date,
                                OrElse(row.description, StrImported),
                                FloatOrZero(row.amount),
                                LowerType(row.type),
                                OrElse(row.category, StrUncategorized),
                                Undefined, Undefined, Undefined)>>
                    \o ParseGenericRows(Tail(rows), id + 1)

ParseCSV(file, id) ==
    IF file.layout = "known" THEN ParseKnownRows(file.rows, id)
    ELSE ParseGenericRows(file.rows, id)

(* newBudgets: the budget rows with a category and a target above zero, a
   later row of a category replacing an earlier one. *)
RECURSIVE ParseBudgets(_)
ParseBudgets(rows) ==
    IF rows = <<>> THEN <<>>
    ELSE LET r == rows[Len(rows)]
             rest == ParseBudgets(SubSeq(rows, 1, Len(rows) - 1))
         IN  IF r.category # <<>> /\ PositiveOf(r.target) > 0
             THEN (r.category :> PositiveOf(r.target)) @@ rest
             ELSE rest

(* setTransactions(prev => [...prev, ...parsed]) and the budgets update *)
importCSV(file) ==
    /\ LET parsed == ParseCSV(file, nextId)
           newBudgets == ParseBudgets(file.budgets)
       IN  /\ Len(transactions) + Len(parsed) <= MaxLedger
           /\ transactions' = transactions \o parsed
           /\ nextId' = nextId + Len(parsed)
           /\ categoryBudgets' = newBudgets @@ categoryBudgets
           /\ lastOp' = [op |-> "csv", added |-> Len(parsed)]
    /\ UNCHANGED <<recurring, syncCall, feedOrigin>>
    /\ UNCHANGED outsideLedger

(***************************************************************************)
(* ImportModal.finalizeImport: every preview entry with a non-zero amount  *)
(* goes to addTransaction.  A preview entry is [date, description, amount, *)
(* nan, type, category]; type "" stands for a missing type.                *)
(***************************************************************************)
SafeAmount(p) == IF p.nan THEN 0 ELSE p.amount

RECURSIVE FinalizedEntries(_, _)
FinalizedEntries(preview, id) ==
    IF preview = <<>> THEN <<>>
    ELSE LET p == Head(preview)
         IN  IF SafeAmount(p) = 0
             THEN FinalizedEntries(Tail(preview), id)
             ELSE <<Transaction(id, OrElse(p.date, Today),
                                OrElse(p.description, StrImported),
                                SafeAmount(p),
                                IF p.type # "" THEN p.type ELSE "expense",
                                OrElse(p.category, StrUncategorized),
                                Undefined, Undefined, Undefined)>>
                    \o FinalizedEntries(Tail(preview), id + 1)

finalizeImport(preview) ==
    /\ preview # <<>>
    /\ LET added == FinalizedEntries(preview, nextId)
       IN  /\ Len(transactions) + Len(added) <= MaxLedger
           /\ transactions' = transactions \o added
           /\ nextId' = nextId + Len(added)
           /\ lastOp' = [op |-> "ai", added |-> Len(added)]
    /\ UNCHANGED <<recurring, categoryBudgets, syncCall, feedOrigin>>
    /\ UNCHANGED outsideLedger

(***************************************************************************)
(* The ledger under ingestion: feed merges, local edits, CSV imports and   *)
(* finalized AI previews, in any order.  The clock stands still; the feed  *)
(* responses are the endpoint's mappings of a few answers of the feed.     *)
(***************************************************************************)
StrFood == <<"F", "o", "o", "d">>
StrCarLoan == <<"C", "a", "r", " ", "L", "o", "a", "n">>
StrCaf == <<"c", "a", "f">>

FeedTx(id) == CHOOSE t \in FeedTxs \cup {FeedTxRepeat} : t.id = <<id>>

(* The feed's answers: nothing, one purchase, the purchase and a salary,
   the purchase and its repeat, a zero amount before the salary, an amount
   that is no number. *)
FeedBatches ==
    { <<>>,
      <<FeedTx("1")>>,
      <<FeedTx("1"), FeedTx("2")>>,
      <<FeedTx("1"), FeedTx("5")>>,
      <<FeedTx("3"), FeedTx("2")>>,
      <<FeedTx("4")>> }

IncomingBatches ==
    { MapFeedTxs(acc, txns, StartEpoch) : acc \in FeedAccounts, txns \in FeedBatches }

(* What the user types into the edit form: another category, or another
   description. *)
EditsOf(t) ==
    { [t EXCEPT !.category = StrFood],
      [t EXCEPT !.description = StrCaf] }

KnownRow(date, description, category, income, debit) ==
    [date |-> date, description |-> description, category |-> category,
     income |-> income, debit |-> debit]

GenericRow(date, description, amount, type, category) ==
    [date |-> date, description |-> description, amount |-> amount,
     type |-> type, category |-> category]

CsvFiles ==
    { [layout |-> "known",
       rows |-> <<KnownRow(<<"1", "1", "/", "2", "/", "2", "5">>, StrCaf, StrFood,
                           EmptyCell, Cell(3500)),
                  KnownRow(<<"1", "1", "/", "2">>, <<>>, <<>>,
                           [empty |-> FALSE, nan |-> TRUE, value |-> 0], EmptyCell)>>,
       budgets |-> <<[category |-> StrFood, target |-> Cell(400000)],
                     [category |-> StrCarLoan, target |-> EmptyCell]>>],
      [layout |-> "known",
       rows |-> <<KnownRow(<<"3", "/", "1", "/", "2", "0", "2", "5">>, <<>>, StrCarLoan,
                           Cell(0), Cell(250000)),
                  KnownRow(<<"3", "/", "1", "5">>, <<"P", "a", "y">>, <<>>,
                           Cell(120000), Cell(5000))>>,
       budgets |-> <<>>],
      [layout |-> "generic",
       rows |-> <<GenericRow(<<"1", "1", "/", "2", "/", "2", "5">>, <<>>,
                             [empty |-> FALSE, nan |-> TRUE, value |-> 0], "", <<>>),
                  GenericRow(<<>>, StrCaf, Cell(3500), "Expense", StrFood)>>,
       budgets |-> <<>>],
      [layout |-> "generic",
       rows |-> <<GenericRow(<<"2", "0", "2", "5", "-", "1", "0", "-", "3", "1">>,
                             <<"c", "a", "f", " ", "(", "B", "k", ")">>,
                             Cell(3500), "Expense", StrUncategorized)>>,
       budgets |-> <<>>],
      [layout |-> "generic",
       rows |-> <<GenericRow(<<"2", "0", "2", "5", "-", "1", "0", "-", "3", "1">>,
                             StrCarLoan, Cell(120000), "Debt", StrUncategorized)>>,
       budgets |-> <<>>] }

PreviewEntry(date, description, amount, nan, type, category) ==
    [date |-> date, description |-> description, amount |-> amount, nan |-> nan,
     type |-> type, category |-> category]

Previews ==
    { <<PreviewEntry(<<>>, StrCaf, 3500, FALSE, "", <<>>)>>,
      <<PreviewEntry(<<"2", "0", "2", "5", "-", "1", "1", "-", "0", "2">>, StrCaf,
                     3500, FALSE, "expense", StrFood),
        PreviewEntry(<<"2", "0", "2", "5", "-", "1", "1", "-", "0", "2">>, <<>>,
                     0, TRUE, "income", <<>>)>> }

Init == InitServer /\ InitLoggedIn

Next ==
    \/ SimplefinSyncCall
    \/ \E incoming \in IncomingBatches : SimplefinSyncMerge(incoming)
    \/ SimplefinSyncError
    \/ \E i \in 1 .. Len(transactions) :
          \E updated \in EditsOf(transactions[i]) : editTransaction(i, updated)
    \/ \E file \in CsvFiles : importCSV(file)
    \/ \E preview \in Previews : finalizeImport(preview)

Spec == Init /\ [][Next]_vars

(***************************************************************************)
(* C1.  Merging the same feed response twice in sequence, with no local    *)
(* edit, import or other ledger change in between, appends nothing the     *)
(* second time: the ledger after the second merge is the ledger after the  *)
(* first.  "In between" runs from the first call of simplefinSync to the   *)
(* second merge: lastOp.repeat holds after a merge when the ledger         *)
(* operation before it was a merge of the same response, and the ledger    *)
(* did not change while that first request was in flight (lastOp.quiet).   *)
(***************************************************************************)
SecondMergeAppendsNothing ==
    (lastOp.op = "merge" /\ lastOp.repeat)
        => lastOp.added = 0

(* A response of two entries was merged into the empty ledger, both were
   appended, and the same response was merged again. *)
SameBatchMergedTwice ==
    /\ lastOp.op = "merge"
    /\ lastOp.repeat
    /\ Len(lastOp.batch) = 2
    /\ Len(transactions) = 2
    /\ \A i \in 1 .. 2 :
          /\ transactions[i].id \in DOMAIN feedOrigin
          /\ feedOrigin[transactions[i].id] = lastOp.batch[i].externalId

(***************************************************************************)
(* C2.  A merge appends no entry whose externalId is the externalId of an  *)
(* entry already in the ledger, whatever has become of that entry's        *)
(* category or description since it was imported.  (feedOrigin records the *)
(* externalId each ledger entry was imported under; the ledger itself does *)
(* not store it.)                                                          *)
(***************************************************************************)
ExternalIdIsDuplicate ==
    [][\A id \in (DOMAIN feedOrigin') \ (DOMAIN feedOrigin) :
          ~ \E t \in Range(transactions) :
                /\ t.id \in DOMAIN feedOrigin
                /\ feedOrigin[t.id] = feedOrigin'[id]]_vars

(***************************************************************************)
(* C3.  A CSV import or a finalized AI preview appends no entry whose      *)
(* fingerprint is that of an entry already in the ledger or of an entry    *)
(* appended before it by the same import.                                  *)
(***************************************************************************)
ImportsPassDeduplicator ==
    [][lastOp'.op \in {"csv", "ai"} =>
          \A k \in (Len(transactions) + 1) .. Len(transactions') :
              FingerprintOfStored(transactions'[k])
                  \notin { FingerprintOfStored(transactions'[j]) : j \in 1 .. (k - 1) }]_vars

(***************************************************************************)
(* C22.  A merge appends, of the incoming entries, exactly those whose     *)
(* fingerprint is not that of an entry of the ledger the call captured and *)
(* not that of an entry earlier in the same response: of several incoming  *)
(* entries with one fingerprint the first alone is appended, and the       *)
(* entries that were there stay as they are.                               *)
(***************************************************************************)
MergeStep == \E incoming \in IncomingBatches : SimplefinSyncMerge(incoming)

FirstOfFingerprint(batch, snapshot) ==
    { k \in 1 .. Len(batch) :
        /\ \A t \in Range(snapshot) :
              FingerprintOfStored(t) # FingerprintOfIncoming(batch[k])
        /\ \A j \in 1 .. (k - 1) :
              FingerprintOfIncoming(batch[j]) # FingerprintOfIncoming(batch[k]) }

MergeAppendsFirstOfFingerprint ==
    [][MergeStep =>
          LET batch == lastOp'.batch
              first == FirstOfFingerprint(batch, syncCall.transactions)
              new == (Len(transactions) + 1) .. Len(transactions')
          IN  /\ Len(transactions') = Len(transactions) + Cardinality(first)
              /\ SubSeq(transactions', 1, Len(transactions)) = transactions
              /\ \A i \in new : transactions'[i].id \in DOMAIN feedOrigin'
              /\ { feedOrigin'[transactions'[i].id] : i \in new }
                    = { batch[k].externalId : k \in first }]_vars

(* A response with two entries of one fingerprint was merged into a ledger
   that held another entry: the first of the two was appended, the second
   was not. *)
FirstOfTwoAlikeAppended ==
    /\ lastOp.op = "merge"
    /\ Len(lastOp.batch) = 2
    /\ FingerprintOfIncoming(lastOp.batch[1]) = FingerprintOfIncoming(lastOp.batch[2])
    /\ lastOp.batch[1].externalId # lastOp.batch[2].externalId
    /\ lastOp.added = 1
    /\ Len(transactions) = 2
    /\ feedOrigin[transactions[2].id] = lastOp.batch[1].externalId

(***************************************************************************)
(* C29.  Every date in the ledger has the form YYYY-MM-DD: four digits, a  *)
(* hyphen, a month from 01 to 12, a hyphen, a day from 01 to 31.           *)
(***************************************************************************)
IsIsoDate(d) ==
    /\ Len(d) = 10
    /\ \A k \in {1, 2, 3, 4, 6, 7, 9, 10} : IsDigit(d[k])
    /\ d[5] = "-"
    /\ d[8] = "-"
    /\ NumberOf(SubSeq(d, 6, 7)) \in 1 .. 12
    /\ NumberOf(SubSeq(d, 9, 10)) \in 1 .. 31

DatesNormalized ==
    \A k \in 1 .. Len(transactions) : IsIsoDate(transactions[k].date)

(***************************************************************************)
(* C30.  No step stores a new or updated ledger entry with the legacy type *)
(* 'debt': an entry of that type in the ledger after a step was in the     *)
(* ledger, unchanged, before it.                                           *)
(***************************************************************************)
Entries(ledger) == {ledger[k] : k \in 1 .. Len(ledger)}

LegacyDebtNeverWritten ==
    [][\A t \in Entries(transactions') :
          t.type = "debt" => t \in Entries(transactions)]_vars

(***************************************************************************)
(* Recurring rules and their projection into the ledger.                   *)
(*                                                                         *)
(* A RecurringRule is [id, description, amount, type, category,            *)
(* dayOfMonth, enabled, startMonth, debtAccountId, assetAccountId]; a      *)
(* startMonth that is absent is the empty string.                          *)
(***************************************************************************)
RecurringRule(description, amount, type, category, dayOfMonth, enabled, startMonth) ==
    [id |-> 0, description |-> description, amount |-> amount, type |-> type,
     category |-> category, dayOfMonth |-> dayOfMonth, enabled |-> enabled,
     startMonth |-> startMonth, debtAccountId |-> Undefined,
     assetAccountId |-> Undefined]

RuleInputs ==
    { RecurringRule(<<"R", "e", "n", "t">>, 1200000, "expense", <<"H", "o", "m", "e">>,
                    31, TRUE, <<>>),
      RecurringRule(<<"P", "a", "y">>, 120000, "income", <<>>,
                    0, TRUE, <<"2", "0", "2", "4", "-", "0", "3">>) }

(* As many rules as there are rule inputs. *)
MaxRules == Cardinality(RuleInputs)

addRecurring(r) ==
    /\ Len(recurring) < MaxRules
    /\ recurring' = Append(recurring, [r EXCEPT !.id = nextId])
    /\ nextId' = nextId + 1
    /\ lastOp' = [op |-> "rule"]
    /\ UNCHANGED <<transactions, categoryBudgets, syncCall, feedOrigin>>
    /\ UNCHANGED outsideLedger

(* Mutant: switching a rule off takes its entries out of the ledger. *)
toggleRecurringRetracts(i, enabled) ==
    /\ i \in 1 .. Len(recurring)
    /\ recurring' = [recurring EXCEPT ![i] = [@ EXCEPT !.enabled = enabled]]
    /\ transactions' = IF enabled THEN transactions
                       ELSE SelectSeq(transactions,
                                      LAMBDA t : t.recurringId # recurring[i].id)
    /\ lastOp' = [op |-> "toggle", id |-> recurring[i].id, offOn |-> FALSE]
    /\ UNCHANGED <<categoryBudgets, nextId, syncCall, feedOrigin>>
    /\ UNCHANGED outsideLedger

(* lastOp remembers the rule switched, and whether this call switched on the
   rule that the call before had switched off (offOn). *)
toggleRecurring(i, enabled) ==
    /\ i \in 1 .. Len(recurring)
    /\ recurring' = [recurring EXCEPT ![i] = [@ EXCEPT !.enabled = enabled]]
    /\ lastOp' = [op |-> "toggle", id |-> recurring[i].id,
                  offOn |-> /\ lastOp.op = "toggle"
                            /\ lastOp.id = recurring[i].id
                            /\ recurring[i].enabled = FALSE
                            /\ enabled]
    /\ UNCHANGED <<transactions, categoryBudgets, nextId, syncCall, feedOrigin>>
    /\ UNCHANGED outsideLedger

deleteTransaction(i) ==
    /\ i \in 1 .. Len(transactions)
    /\ transactions' = [k \in 1 .. (Len(transactions) - 1) |->
                           IF k < i THEN transactions[k] ELSE transactions[k + 1]]
    /\ lastOp' = [op |-> "delete"]
    /\ UNCHANGED <<recurring, categoryBudgets, nextId, syncCall, feedOrigin>>
    /\ UNCHANGED outsideLedger

IsLeapYear(y) == (y % 4 = 0 /\ y % 100 # 0) \/ y % 400 = 0

(* new Date(year, monthIndex + 1, 0).getDate() *)
DaysInMonth(year, monthIndex) ==
    CASE monthIndex = 1 -> IF IsLeapYear(year) THEN 29 ELSE 28
      [] monthIndex \in {3, 5, 8, 10} -> 30
      [] OTHER -> 31

(* const [yStr, mStr] = yyyyMM.split('-'); Number(...) of each; a missing
   mStr is NaN.  ValidPeriod is the negation of the early return. *)
PeriodYear(yyyyMM) == NumberOf(split(yyyyMM, "-")[1])

PeriodMonthIndex(yyyyMM) ==
    LET parts == split(yyyyMM, "-")
        month == IF Len(parts) < 2 THEN Undefined ELSE NumberOf(parts[2])
    IN  IF month = Undefined THEN Undefined ELSE month - 1

ValidPeriod(yyyyMM) ==
    LET monthIndex == PeriodMonthIndex(yyyyMM)
    IN  /\ PeriodYear(yyyyMM) # Undefined
        /\ monthIndex # Undefined
        /\ monthIndex >= 0
        /\ monthIndex <= 11

(* Mutant: the entry's date is compared with the period for equality. *)
alreadyExistsDateEquals(prev, ruleId, yyyyMM) ==
    \E t \in Range(prev) : t.recurringId = ruleId /\ t.date = yyyyMM

(* prev.some(t => t.recurringId === ruleId && t.date.startsWith(yyyyMM)) *)
alreadyExists(prev, ruleId, yyyyMM) ==
    \E t \in Range(prev) : t.recurringId = ruleId /\ startsWith(t.date, yyyyMM)

(* Mutant: an entry the rule already has in the period is not looked for. *)
SkipRuleIgnoresExisting(rule, prev, yyyyMM) ==
    \/ ~rule.enabled
    \/ (rule.startMonth # <<>> /\ StrLess(yyyyMM, rule.startMonth))

(* Mutant: the rule's startMonth is not looked at. *)
SkipRuleWhateverStart(rule, prev, yyyyMM) ==
    \/ ~rule.enabled
    \/ alreadyExists(prev, rule.id, yyyyMM)

(* The rule is passed over by the loop. *)
SkipRule(rule, prev, yyyyMM) ==
    \/ ~rule.enabled
    \/ (rule.startMonth # <<>> /\ StrLess(yyyyMM, rule.startMonth))
    \/ alreadyExists(prev, rule.id, yyyyMM)

(* Mutant: the day is the rule's dayOfMonth, not cut at the month's end. *)
ProjectedEntryDayUncut(rule, yyyyMM, id) ==
    LET day == Max(1, rule.dayOfMonth)
    IN  Transaction(id,
                    yyyyMM \o <<"-">> \o padStart(NatToStr(day), 2, "0"),
                    rule.description, rule.amount, rule.type,
                    OrElse(rule.category, StrUncategorized),
                    rule.debtAccountId, rule.assetAccountId, rule.id)

ProjectedEntry(rule, yyyyMM, id) ==
    LET daysInMonth == DaysInMonth(PeriodYear(yyyyMM), PeriodMonthIndex(yyyyMM))
        day == Min(Max(1, rule.dayOfMonth), daysInMonth)
    IN  Transaction(id,
                    yyyyMM \o <<"-">> \o padStart(NatToStr(day), 2, "0"),
                    rule.description, rule.amount, rule.type,
                    OrElse(rule.category, StrUncategorized),
                    rule.debtAccountId, rule.assetAccountId, rule.id)

(* toAdd: the entries of the rules that are not passed over, in rule order,
   ids from `id`. *)
RECURSIVE ToAdd(_, _, _, _)
ToAdd(rules, prev, yyyyMM, id) ==
    IF rules = <<>> THEN <<>>
    ELSE IF SkipRule(Head(rules), prev, yyyyMM)
         THEN ToAdd(Tail(rules), prev, yyyyMM, id)
         ELSE <<ProjectedEntry(Head(rules), yyyyMM, id)>>
                \o ToAdd(Tail(rules), prev, yyyyMM, id + 1)

generateRecurringForMonth(yyyyMM) ==
    /\ LET toAdd == IF ValidPeriod(yyyyMM)
                    THEN ToAdd(recurring, transactions, yyyyMM, nextId)
                    ELSE <<>>
       IN  /\ Len(transactions) + Len(toAdd) <= MaxLedger
           /\ nextId + Len(toAdd) <= MaxIds + 1
           /\ transactions' = IF Len(toAdd) = 0 THEN transactions
                              ELSE transactions \o toAdd
           /\ nextId' = nextId + Len(toAdd)
           /\ lastOp' = [op |-> "generate", period |-> yyyyMM, added |-> Len(toAdd),
                         repeat |-> (lastOp.op = "generate" /\ lastOp.period = yyyyMM),
                         reenabled |-> IF lastOp.op = "toggle" /\ lastOp.offOn
                                       THEN lastOp.id ELSE Undefined]
    /\ UNCHANGED <<recurring, categoryBudgets, syncCall, feedOrigin>>
    /\ UNCHANGED outsideLedger

(***************************************************************************)
(* SpecRecurring: rules are added and switched on and off, months are      *)
(* projected, projected entries are deleted.                               *)
(***************************************************************************)
Periods ==
    { <<"2", "0", "2", "4", "-", "0", "2">>,
      <<"2", "0", "2", "5", "-", "0", "2">>,
      <<"2", "0", "2", "5", "-", "1", "1">>,
      <<"2", "0", "2", "5", "-", "1", "3">> }

InitRecurring == InitServer /\ InitClient

NextRecurring ==
    \/ \E r \in RuleInputs : addRecurring(r)
    \/ \E i \in 1 .. Len(recurring) : toggleRecurring(i, ~recurring[i].enabled)
    \/ \E yyyyMM \in Periods : generateRecurringForMonth(yyyyMM)
    \/ \E i \in 1 .. Len(transactions) : deleteTransaction(i)

SpecRecurring == InitRecurring /\ [][NextRecurring]_vars

(***************************************************************************)
(* C10.  Projecting a period a second time, with the rules unchanged and   *)
(* the ledger as the first projection left it, appends nothing.            *)
(***************************************************************************)
SecondProjectionAppendsNothing ==
    (lastOp.op = "generate" /\ lastOp.repeat)
        => lastOp.added = 0

(* A period was projected for two rules, both entries were appended, and
   the period was projected again. *)
SamePeriodProjectedTwice ==
    /\ lastOp.op = "generate"
    /\ lastOp.repeat
    /\ Len(recurring) = 2
    /\ Len(transactions) = 2
    /\ \A i \in 1 .. 2 :
          /\ transactions[i].recurringId = recurring[i].id
          /\ startsWith(transactions[i].date, lastOp.period)

(***************************************************************************)
(* Debt and asset accounts, and the manual entry form.                     *)
(*                                                                         *)
(* An account is [id, name, startingBalance].  The form of                 *)
(* AddTransactionForm is [desc, amount, type, category, txDate,            *)
(* selectedDebtId, selectedAssetId]: amount is the text of the number      *)
(* input as a cell, a selected id that is '' is Undefined.                 *)
(***************************************************************************)
Account(name, startingBalance) ==
    [id |-> 0, name |-> name, startingBalance |-> startingBalance]

addDebt(d) ==
    /\ Len(debts) < MaxAccounts
    /\ nextId <= MaxIds
    /\ debts' = Append(debts, [d EXCEPT !.id = nextId])
    /\ nextId' = nextId + 1
    /\ lastOp' = [op |-> "account"]
    /\ UNCHANGED <<transactions, recurring, categoryBudgets, syncCall, feedOrigin, assets>>
    /\ UNCHANGED <<serverVars, derivedVars, saveVars>>

addAsset(a) ==
    /\ Len(assets) < MaxAccounts
    /\ nextId <= MaxIds
    /\ assets' = Append(assets, [a EXCEPT !.id = nextId])
    /\ nextId' = nextId + 1
    /\ lastOp' = [op |-> "account"]
    /\ UNCHANGED <<transactions, recurring, categoryBudgets, syncCall, feedOrigin, debts>>
    /\ UNCHANGED <<serverVars, derivedVars, saveVars>>

(* addTransaction: the draft gets a fresh id and goes to the end. *)
addTransaction(t) ==
    /\ Len(transactions) < MaxLedger
    /\ nextId <= MaxIds
    /\ transactions' = Append(transactions, [t EXCEPT !.id = nextId])
    /\ nextId' = nextId + 1
    /\ lastOp' = [op |-> "add"]
    /\ UNCHANGED <<recurring, categoryBudgets, syncCall, feedOrigin>>
    /\ UNCHANGED outsideLedger

(* TransactionForm.handleSubmit in mode 'add'. *)
handleSubmit(form) ==
    /\ form.desc # <<>>
    /\ ~form.amount.empty
    /\ addTransaction(Transaction(0, form.txDate, form.desc, form.amount.value,
                                  form.type,
                                  OrElse(form.category, StrUncategorized),
                                  form.selectedDebtId, form.selectedAssetId,
                                  Undefined))

(***************************************************************************)
(* Derived balances.                                                       *)
(***************************************************************************)
RECURSIVE SumAmounts(_)
SumAmounts(txs) ==
    IF txs = <<>> THEN 0 ELSE Head(txs).amount + SumAmounts(Tail(txs))

(* txs.filter(t => t.type is one of `types`).reduce((sum, t) => sum + t.amount, 0) *)
SumOfTypes(txs, types) == SumAmounts(SelectSeq(txs, LAMBDA t : t.type \in types))

LinkedToDebt(txs, debtId) == SelectSeq(txs, LAMBDA t : t.debtAccountId = debtId)

(* DebtsManager.getDebtStats(debtId, initial).current *)
getDebtStats(txs, debtId, initial) ==
    LET debtTx == LinkedToDebt(txs, debtId)
        payments == SumOfTypes(debtTx, {"debt-payment", "debt"})
        interest == SumOfTypes(debtTx, {"debt-interest"})
    IN  initial - payments + interest

(* totalDebt of the dashboard card: debts.reduce(...) *)
RECURSIVE totalDebt(_, _)
totalDebt(txs, ds) ==
    IF ds = <<>> THEN 0
    ELSE LET d == Head(ds)
             debtTx == LinkedToDebt(txs, d.id)
             payments == SumOfTypes(debtTx, {"debt-payment", "debt"})
             interest == SumOfTypes(debtTx, {"debt-interest"})
         IN  (d.startingBalance - payments + interest) + totalDebt(txs, Tail(ds))

(* debtComputed.get(d.id).current of the profile dialog *)
debtComputed(txs, d) ==
    LET debtTx == LinkedToDebt(txs, d.id)
        payments == SumOfTypes(debtTx, {"debt-payment", "debt"})
        charges == SumOfTypes(debtTx, {"debt-charge"})
        interest == SumOfTypes(debtTx, {"debt-interest"})
    IN  d.startingBalance + charges - payments + interest

LinkedToAsset(txs, assetId) == SelectSeq(txs, LAMBDA t : t.assetAccountId = assetId)

(* Mutant: growth is left out of the balance. *)
getAssetStatsDepositsOnly(txs, assetId, initial) ==
    initial + SumOfTypes(LinkedToAsset(txs, assetId), {"asset-deposit"})

(* AssetsManager.getAssetStats(assetId, initial).current *)
getAssetStats(txs, assetId, initial) ==
    LET assetTx == LinkedToAsset(txs, assetId)
        deposits == SumOfTypes(assetTx, {"asset-deposit"})
        growth == SumOfTypes(assetTx, {"asset-growth"})
    IN  initial + deposits + growth

(* totalAssets of the dashboard card: assets.reduce(...) *)
RECURSIVE totalAssets(_, _)
totalAssets(txs, as) ==
    IF as = <<>> THEN 0
    ELSE LET a == Head(as)
             assetTx == LinkedToAsset(txs, a.id)
             deposits == SumOfTypes(assetTx, {"asset-deposit"})
             growth == SumOfTypes(assetTx, {"asset-growth"})
         IN  (a.startingBalance + deposits + growth) + totalAssets(txs, Tail(as))

(* assetComputed.get(a.id).current of the profile dialog *)
assetComputed(txs, a) ==
    LET assetTx == LinkedToAsset(txs, a.id)
        deposits == SumOfTypes(assetTx, {"asset-deposit"})
        growth == SumOfTypes(assetTx, {"asset-growth"})
    IN  a.startingBalance + deposits + growth

(***************************************************************************)
(* deleteDebt and deleteAsset: the account goes, the links to it are       *)
(* cleared.                                                                *)
(***************************************************************************)
Without(seq, i) ==
    [k \in 1 .. (Len(seq) - 1) |-> IF k < i THEN seq[k] ELSE seq[k + 1]]

(* Mutant: the entries linked to the account go with it. *)
deleteDebtCascade(i) ==
    /\ i \in 1 .. Len(debts)
    /\ debts' = Without(debts, i)
    /\ transactions' = SelectSeq(transactions, LAMBDA t : t.debtAccountId # debts[i].id)
    /\ lastOp' = [op |-> "deleteDebt", id |-> debts[i].id,
                  links |-> Len(LinkedToDebt(transactions, debts[i].id)), ruleLinks |-> 0]
    /\ UNCHANGED <<recurring, categoryBudgets, nextId, syncCall, feedOrigin, assets>>
    /\ UNCHANGED <<serverVars, derivedVars, saveVars>>

deleteDebt(i) ==
    /\ i \in 1 .. Len(debts)
    /\ LET id == debts[i].id
       IN  /\ debts' = SelectSeq(debts, LAMBDA d : d.id # id)
           /\ transactions' = [k \in 1 .. Len(transactions) |->
                                  IF transactions[k].debtAccountId = id
                                  THEN [transactions[k] EXCEPT !.debtAccountId = Undefined]
                                  ELSE transactions[k]]
           /\ recurring' = [k \in 1 .. Len(recurring) |->
                               IF recurring[k].debtAccountId = id
                               THEN [recurring[k] EXCEPT !.debtAccountId = Undefined]
                               ELSE recurring[k]]
    /\ lastOp' = [op |-> "deleteDebt", id |-> debts[i].id,
                  links |-> Len(LinkedToDebt(transactions, debts[i].id)),
                  ruleLinks |-> Len(SelectSeq(recurring,
                                   LAMBDA r : r.debtAccountId = debts[i].id))]
    /\ UNCHANGED <<categoryBudgets, nextId, syncCall, feedOrigin, assets>>
    /\ UNCHANGED <<serverVars, derivedVars, saveVars>>

deleteAsset(i) ==
    /\ i \in 1 .. Len(assets)
    /\ LET id == assets[i].id
       IN  /\ assets' = SelectSeq(assets, LAMBDA a : a.id # id)
           /\ transactions' = [k \in 1 .. Len(transactions) |->
                                  IF transactions[k].assetAccountId = id
                                  THEN [transactions[k] EXCEPT !.assetAccountId = Undefined]
                                  ELSE transactions[k]]
           /\ recurring' = [k \in 1 .. Len(recurring) |->
                               IF recurring[k].assetAccountId = id
                               THEN [recurring[k] EXCEPT !.assetAccountId = Undefined]
                               ELSE recurring[k]]
    /\ lastOp' = [op |-> "deleteAsset", id |-> assets[i].id,
                  links |-> Len(LinkedToAsset(transactions, assets[i].id)),
                  ruleLinks |-> Len(SelectSeq(recurring,
                                   LAMBDA r : r.assetAccountId = assets[i].id))]
    /\ UNCHANGED <<categoryBudgets, nextId, syncCall, feedOrigin, debts>>
    /\ UNCHANGED <<serverVars, derivedVars, saveVars>>

(***************************************************************************)
(* SpecAccounts: accounts are added and deleted, entries are typed into    *)
(* the form with and without a link, rules are added with and without a    *)
(* link.  The browser starts empty, or with a stored ledger of an earlier  *)
(* version that holds a payment of the legacy type 'debt'.                 *)
(***************************************************************************)
StrCard == <<"C", "a", "r", "d">>
StrSav == <<"S", "a", "v">>
StrDay == <<"2", "0", "2", "5", "-", "1", "1", "-", "0", "2">>

DebtInputs == { Account(StrCard, 1000000) }

AssetInputs == { Account(StrSav, 500000) }

Form(desc, amount, type, category, selectedDebtId, selectedAssetId) ==
    [desc |-> desc, amount |-> amount, type |-> type, category |-> category,
     txDate |-> StrDay, selectedDebtId |-> selectedDebtId,
     selectedAssetId |-> selectedAssetId]

(* The options of the two account selects: no account, or one of the
   accounts there are. *)
DebtOptions == {Undefined} \cup { d.id : d \in Range(debts) }

AssetOptions == {Undefined} \cup { a.id : a \in Range(assets) }

(* The type select clears both links; the debt select shows for the debt
   types, the asset select for the asset types. *)
FormInputs ==
    { Form(StrCaf, Cell(3500), "expense", StrFood, Undefined, Undefined),
      Form(<<>>, Cell(3500), "expense", StrFood, Undefined, Undefined),
      Form(StrCaf, EmptyCell, "income", <<>>, Undefined, Undefined) }
    \cup { Form(StrCard, Cell(200000), "debt-payment", <<>>, d, Undefined) : d \in DebtOptions }
    \cup { Form(StrCard, Cell(15000), "debt-interest", <<>>, d, Undefined) : d \in DebtOptions }
    \cup { Form(StrCard, Cell(50000), "debt-charge", StrFood, d, Undefined) : d \in DebtOptions }
    \cup { Form(StrSav, Cell(100000), "asset-deposit", <<>>, Undefined, a) : a \in AssetOptions }
    \cup { Form(StrSav, Cell(7000), "asset-growth", <<>>, Undefined, a) : a \in AssetOptions }

(* The rent rule, paid from no account, from a card, or into an account. *)
RentRule == CHOOSE r \in RuleInputs : r.dayOfMonth = 31

LinkedRuleInputs ==
    { [RentRule EXCEPT !.debtAccountId = d] : d \in DebtOptions }
    \cup { [RentRule EXCEPT !.assetAccountId = a] : a \in AssetOptions }

(* localStorage of an installation that was used with an earlier version. *)
InitStoredLegacy ==
    /\ transactions = <<Transaction(2, StrDay, StrCard, 200000, "debt", StrUncategorized,
                                    1, Undefined, Undefined)>>
    /\ debts = <<[id |-> 1, name |-> StrCard, startingBalance |-> 1000000]>>
    /\ assets = <<>>
    /\ recurring = <<>>
    /\ categoryBudgets = <<>>
    /\ nextId = 3
    /\ syncCall = [busy |-> FALSE, transactions |-> <<>>]
    /\ feedOrigin = <<>>
    /\ lastOp = [op |-> "init"]
    /\ fpArgs = <<>>
    /\ fpResult = <<>>
    /\ view = <<>>
    /\ summary = <<>>
    /\ InitSave

InitAccounts == InitServer /\ (InitClient \/ InitStoredLegacy)

NextAccounts ==
    \/ \E d \in DebtInputs : addDebt(d)
    \/ \E a \in AssetInputs : addAsset(a)
    \/ \E form \in FormInputs : handleSubmit(form)
    \/ \E r \in LinkedRuleInputs : nextId <= MaxIds /\ addRecurring(r)
    \/ \E i \in 1 .. Len(debts) : deleteDebt(i)
    \/ \E i \in 1 .. Len(assets) : deleteAsset(i)

SpecAccounts == InitAccounts /\ [][NextAccounts]_vars

(***************************************************************************)
(* C11.  For every debt account the balance shown is                       *)
(* startingBalance + charges - payments (legacy 'debt' included)           *)
(* + interest over the entries linked to the account, in every place that  *)
(* shows a debt balance: the account list (getDebtStats), the dashboard    *)
(* total (totalDebt) and the profile dialog (debtComputed).                *)
(***************************************************************************)
RECURSIVE DebtDelta(_, _)
DebtDelta(txs, debtId) ==
    IF txs = <<>> THEN 0
    ELSE LET t == Head(txs)
             signed == CASE t.debtAccountId # debtId -> 0
                         [] t.type \in {"debt-charge", "debt-interest"} -> t.amount
                         [] t.type \in {"debt-payment", "debt"} -> 0 - t.amount
                         [] OTHER -> 0
         IN  signed + DebtDelta(Tail(txs), debtId)

ExpectedDebtBalance(d) == d.startingBalance + DebtDelta(transactions, d.id)

RECURSIVE SumOver(_, _)
SumOver(Op(_), seq) ==
    IF seq = <<>> THEN 0 ELSE Op(Head(seq)) + SumOver(Op, Tail(seq))

DebtBalanceEverywhere ==
    /\ \A d \in Range(debts) :
          /\ getDebtStats(transactions, d.id, d.startingBalance) = ExpectedDebtBalance(d)
          /\ debtComputed(transactions, d) = ExpectedDebtBalance(d)
    /\ totalDebt(transactions, debts) = SumOver(ExpectedDebtBalance, debts)

(***************************************************************************)
(* C12.  For every asset account the balance shown is                      *)
(* startingBalance + deposits + growth over the entries linked to the      *)
(* account, in the account list (getAssetStats), the dashboard total       *)
(* (totalAssets) and the profile dialog (assetComputed); with no linked    *)
(* entry it is startingBalance.                                            *)
(***************************************************************************)
RECURSIVE AssetDelta(_, _)
AssetDelta(txs, assetId) ==
    IF txs = <<>> THEN 0
    ELSE LET t == Head(txs)
         IN  (IF t.assetAccountId = assetId /\ t.type \in {"asset-deposit", "asset-growth"}
              THEN t.amount ELSE 0)
               + AssetDelta(Tail(txs), assetId)

ExpectedAssetBalance(a) == a.startingBalance + AssetDelta(transactions, a.id)

AssetBalanceEverywhere ==
    /\ \A a \in Range(assets) :
          /\ getAssetStats(transactions, a.id, a.startingBalance) = ExpectedAssetBalance(a)
          /\ assetComputed(transactions, a) = ExpectedAssetBalance(a)
          /\ (LinkedToAsset(transactions, a.id) = <<>>
                => getAssetStats(transactions, a.id, a.startingBalance) = a.startingBalance)
    /\ totalAssets(transactions, assets) = SumOver(ExpectedAssetBalance, assets)

(* Two asset accounts: one has a deposit and a growth entry, the other has
   no entry. *)
AssetWithDepositAndGrowth ==
    /\ Len(assets) = 2
    /\ \E a \in Range(assets) :
          /\ \E t \in Range(transactions) :
                t.assetAccountId = a.id /\ t.type = "asset-deposit"
          /\ \E t \in Range(transactions) :
                t.assetAccountId = a.id /\ t.type = "asset-growth"
          /\ getAssetStats(transactions, a.id, a.startingBalance) = 607000
    /\ \E a \in Range(assets) :
          /\ LinkedToAsset(transactions, a.id) = <<>>
          /\ getAssetStats(transactions, a.id, a.startingBalance) = 500000

(***************************************************************************)
(* C16.  A step that removes an account removes that account only, keeps   *)
(* the number of transactions and of rules, clears the link to the         *)
(* account where there was one and changes no other field, and leaves the  *)
(* transactions and rules without a link to it as they were.               *)
(***************************************************************************)
IdsOf(seq) == { x.id : x \in Range(seq) }

DebtUnlinked(x, id) ==
    IF x.debtAccountId = id THEN [x EXCEPT !.debtAccountId = Undefined] ELSE x

AssetUnlinked(x, id) ==
    IF x.assetAccountId = id THEN [x EXCEPT !.assetAccountId = Undefined] ELSE x

DeleteAccountUnlinks ==
    [][/\ \A id \in IdsOf(debts) \ IdsOf(debts') :
            /\ IdsOf(debts') = IdsOf(debts) \ {id}
            /\ assets' = assets
            /\ Len(transactions') = Len(transactions)
            /\ Len(recurring') = Len(recurring)
            /\ \A k \in 1 .. Len(transactions) :
                  transactions'[k] = DebtUnlinked(transactions[k], id)
            /\ \A k \in 1 .. Len(recurring) :
                  recurring'[k] = DebtUnlinked(recurring[k], id)
       /\ \A id \in IdsOf(assets) \ IdsOf(assets') :
            /\ IdsOf(assets') = IdsOf(assets) \ {id}
            /\ debts' = debts
            /\ Len(transactions') = Len(transactions)
            /\ Len(recurring') = Len(recurring)
            /\ \A k \in 1 .. Len(transactions) :
                  transactions'[k] = AssetUnlinked(transactions[k], id)
            /\ \A k \in 1 .. Len(recurring) :
                  recurring'[k] = AssetUnlinked(recurring[k], id)]_vars

(* A debt account was deleted that an entry and a rule were linked to,
   while another entry is linked to a debt account that is still there. *)
DebtDeletedWithLinks ==
    /\ lastOp.op = "deleteDebt"
    /\ lastOp.links >= 1
    /\ lastOp.ruleLinks >= 1
    /\ Len(transactions) = 2
    /\ Len(recurring) >= 1
    /\ \E t \in Range(transactions) : t.debtAccountId \in IdsOf(debts)
    /\ \E t \in Range(transactions) :
          t.debtAccountId = Undefined /\ t.type \in {"debt-payment", "debt-interest", "debt-charge", "debt"}

(***************************************************************************)
(* SpecFingerprint: fingerprint applied to pairs of transactions.          *)
(*                                                                         *)
(* The transactions are one entry and its variations: another id, links,   *)
(* a rule, other letter case, surrounding blanks; another date, type,      *)
(* amount, description, category; an amount that rounds to the same cents; *)
(* amounts just below and just above zero; and two entries whose           *)
(* description and category hold the separator.  Amounts that end in half  *)
(* a cent are left out: which way toFixed(2) takes them depends on the     *)
(* binary representation of the number.                                    *)
(***************************************************************************)
BaseEntry ==
    Transaction(1, StrDay, <<"C", "a", "f">>, 3500, "expense", StrFood,
                Undefined, Undefined, Undefined)

FingerprintInputs ==
    { BaseEntry,
      [BaseEntry EXCEPT !.id = 2],
      [BaseEntry EXCEPT !.id = 3, !.debtAccountId = 7, !.assetAccountId = 8,
                        !.recurringId = 9],
      [BaseEntry EXCEPT !.id = 4, !.description = <<" ", "c", "A", "F", " ">>,
                        !.category = <<"f", "O", "O", "D", " ">>],
      [BaseEntry EXCEPT !.date = <<"2", "0", "2", "5", "-", "1", "1", "-", "0", "3">>],
      [BaseEntry EXCEPT !.type = "income"],
      [BaseEntry EXCEPT !.amount = 3510],
      [BaseEntry EXCEPT !.amount = 3504],
      [BaseEntry EXCEPT !.amount = 4],
      [BaseEntry EXCEPT !.amount = 0 - 4],
      [BaseEntry EXCEPT !.description = <<"C", "a", "b">>],
      [BaseEntry EXCEPT !.description = <<"C", " ", "a", "f">>],
      [BaseEntry EXCEPT !.category = <<"F", "u", "n">>],
      [BaseEntry EXCEPT !.description = <<"a", "|", "b">>, !.category = <<"c">>],
      [BaseEntry EXCEPT !.description = <<"a">>, !.category = <<"b", "|", "c">>] }

(* fingerprint(...) of two ledger entries, as simplefinSync computes it for
   the entries of the ledger. *)
fingerprintPair(t1, t2) ==
    /\ fpArgs' = <<t1, t2>>
    /\ fpResult' = <<FingerprintOfStored(t1), FingerprintOfStored(t2)>>
    /\ UNCHANGED <<transactions, recurring, categoryBudgets, nextId, syncCall, feedOrigin,
                   lastOp, accountVars, view, summary>>
    /\ UNCHANGED <<serverVars, saveVars>>

InitFingerprint == InitServer /\ InitClient

NextFingerprint ==
    \E t1 \in FingerprintInputs : \E t2 \in FingerprintInputs : fingerprintPair(t1, t2)

SpecFingerprint == InitFingerprint /\ [][NextFingerprint]_vars

(***************************************************************************)
(* C13.  The fingerprint of a transaction is determined by, and            *)
(* determines, its five components.                                        *)
(*                                                                         *)
(* As claimed (FingerprintIffComponents): two transactions have the same   *)
(* fingerprint exactly if they agree in date, type, amount rounded to      *)
(* cents, trimmed lower-cased description and trimmed lower-cased          *)
(* category.                                                               *)
(*                                                                         *)
(* As the code has it (FingerprintIffKey): the amount enters as the text   *)
(* toFixed(2) gives, and the five texts are joined by "|".  Transactions   *)
(* that agree in the five texts have the same fingerprint, whatever their  *)
(* id, links, recurringId, letter case and surrounding blanks; and         *)
(* transactions with the same fingerprint agree in the five texts if       *)
(* neither has a "|" in its date, description or category.                 *)
(***************************************************************************)
RoundedCents(mills) ==
    IF mills < 0 THEN 0 - ((0 - mills + 5) \div 10) ELSE (mills + 5) \div 10

Components(t) ==
    <<t.date, t.type, RoundedCents(t.amount), toLowerCase(trim(t.description)),
      toLowerCase(trim(t.category))>>

FingerprintIffComponents ==
    fpArgs # <<>> =>
        ((fpResult[1] = fpResult[2]) <=> (Components(fpArgs[1]) = Components(fpArgs[2])))

KeyTexts(t) ==
    <<t.date, t.type, toFixed2(t.amount), toLowerCase(trim(t.description)),
      toLowerCase(trim(t.category))>>

HasSeparator(str) == \E i \in 1 .. Len(str) : str[i] = "|"

SeparatorFree(t) ==
    ~HasSeparator(t.date) /\ ~HasSeparator(t.description) /\ ~HasSeparator(t.category)

FingerprintIffKey ==
    fpArgs # <<>> =>
        /\ (KeyTexts(fpArgs[1]) = KeyTexts(fpArgs[2])) => (fpResult[1] = fpResult[2])
        /\ (SeparatorFree(fpArgs[1]) /\ SeparatorFree(fpArgs[2])
              /\ fpResult[1] = fpResult[2])
             => (KeyTexts(fpArgs[1]) = KeyTexts(fpArgs[2]))

(* Two entries that differ in id, links, rule, letter case and blanks were
   given the same fingerprint. *)
SameFingerprintDespiteCase ==
    /\ fpArgs # <<>>
    /\ fpArgs[1].debtAccountId # fpArgs[2].debtAccountId
    /\ fpArgs[1].recurringId # fpArgs[2].recurringId
    /\ fpArgs[2].description # fpArgs[1].description
    /\ fpArgs[2].category # fpArgs[1].category
    /\ fpArgs[1].id # fpArgs[2].id
    /\ fpResult[1] = fpResult[2]

(***************************************************************************)
(* SpecLedger: every way an entry gets into the ledger, together.          *)
(*                                                                         *)
(* The form adds and edits entries, a CSV file is imported, a reviewed     *)
(* statement is finalized, the feed is merged, a rule is projected.  What   *)
(* is typed or read may be a negative number: the                          *)
(* amount field of the form is <input type="number" step="0.01"> with no   *)
(* minimum, a CSV cell and a statement line are whatever the file holds.   *)
(***************************************************************************)
LedgerForms ==
    { Form(StrCaf, Cell(3500), "expense", StrFood, Undefined, Undefined),
      Form(StrCaf, Cell(0 - 1250), "expense", StrFood, Undefined, Undefined),
      Form(<<>>, Cell(3500), "expense", StrFood, Undefined, Undefined),
      Form(StrCaf, EmptyCell, "income", <<>>, Undefined, Undefined) }

(* The edit form: the fields of the entry, with another category or another
   amount typed in. *)
LedgerEdits(t) ==
    { [t EXCEPT !.category = StrFood],
      [t EXCEPT !.amount = 0 - 1250] }

LedgerCsvFiles ==
    { [layout |-> "known",
       rows |-> <<KnownRow(<<"1", "1", "/", "2", "/", "2", "5">>, StrCaf, StrFood,
                           Cell(0 - 2000), Cell(3500)),
                  KnownRow(<<"1", "1", "/", "3", "/", "2", "5">>, StrCaf, StrFood,
                           EmptyCell, Cell(0 - 2000))>>,
       budgets |-> <<>>],
      [layout |-> "generic",
       rows |-> <<GenericRow(StrDay, StrCaf, Cell(0 - 2000), "expense", StrFood)>>,
       budgets |-> <<>>],
      [layout |-> "generic",
       rows |-> <<GenericRow(StrDay, StrCaf, Cell(3500), "expense", StrFood)>>,
       budgets |-> <<>>] }

LedgerPreviews ==
    { <<PreviewEntry(StrDay, StrCaf, 3500, FALSE, "expense", StrFood)>>,
      <<PreviewEntry(StrDay, StrCaf, 0 - 2000, FALSE, "expense", StrFood)>> }

LedgerPeriods == { <<"2", "0", "2", "5", "-", "1", "1">> }

InitLedger == InitServer /\ InitLoggedIn

NextLedger ==
    \/ \E form \in LedgerForms : handleSubmit(form)
    \/ \E i \in 1 .. Len(transactions) :
          \E updated \in LedgerEdits(transactions[i]) : editTransaction(i, updated)
    \/ \E file \in LedgerCsvFiles : importCSV(file)
    \/ \E preview \in LedgerPreviews : finalizeImport(preview)
    \/ SimplefinSyncCall
    \/ \E incoming \in IncomingBatches : SimplefinSyncMerge(incoming)
    \/ SimplefinSyncError
    \/ Len(recurring) = 0 /\ addRecurring(RentRule)
    \/ \E yyyyMM \in LedgerPeriods : generateRecurringForMonth(yyyyMM)

SpecLedger == InitLedger /\ [][NextLedger]_vars

(***************************************************************************)
(* C14.  No two entries of the ledger share an id, and an entry keeps its  *)
(* id: a step of adding, editing, importing, merging or projecting leaves  *)
(* the id at every position as it was, and gives every entry it appends an *)
(* id of the crypto.randomUUID() supply not handed out before.             *)
(***************************************************************************)
IdsUnique ==
    \A i, j \in 1 .. Len(transactions) :
        transactions[i].id = transactions[j].id => i = j

KeepsIds ==
        /\ Len(transactions') >= Len(transactions)
        /\ \A i \in 1 .. Len(transactions) : transactions'[i].id = transactions[i].id
        /\ \A i \in (Len(transactions) + 1) .. Len(transactions') :
              /\ transactions'[i].id >= nextId
              /\ transactions'[i].id < nextId'

IdsUniqueAndKept == IdsUnique /\ [][IdsUnique' /\ KeepsIds]_vars

(* An entry that came from the feed and one that was typed in are in the
   ledger, and an entry has just been edited. *)
EditedAmongFeedAndManual ==
    /\ Len(transactions) = 2
    /\ lastOp.op = "edit"
    /\ \E i \in 1 .. 2 : transactions[i].id \in DOMAIN feedOrigin
    /\ \E i \in 1 .. 2 : transactions[i].id \notin DOMAIN feedOrigin

(***************************************************************************)
(* C15.  Every entry of the ledger has an amount of zero or more, whatever *)
(* was typed into the form, read from a CSV file, returned for a           *)
(* statement, or sent by the feed.                                         *)
(***************************************************************************)
AmountsNonNegative ==
    \A i \in 1 .. Len(transactions) : transactions[i].amount >= 0

(***************************************************************************)
(* C17.  Switching a rule off or on leaves the ledger as it is; a          *)
(* projection appends entries of rules that are switched on only, leaves   *)
(* the entries there are as they are, and the ledger never holds two       *)
(* entries of one rule in one month -- also when the rule was switched off *)
(* and on again between two projections of the month.                      *)
(***************************************************************************)
MonthOf(date) == SubSeq(date, 1, 7)

OncePerRuleAndMonth ==
    \A i, j \in 1 .. Len(transactions) :
        (/\ transactions[i].recurringId # Undefined
         /\ transactions[i].recurringId = transactions[j].recurringId
         /\ MonthOf(transactions[i].date) = MonthOf(transactions[j].date))
            => i = j

SwitchKeepsLedger ==
    (recurring' # recurring \/ lastOp'.op = "toggle") => transactions' = transactions

ProjectsEnabledOnly ==
    lastOp'.op = "generate" =>
        /\ Len(transactions') >= Len(transactions)
        /\ SubSeq(transactions', 1, Len(transactions)) = transactions
        /\ \A k \in (Len(transactions) + 1) .. Len(transactions') :
              \E r \in Range(recurring) :
                  r.enabled /\ r.id = transactions'[k].recurringId

DisabledRuleIsQuiet ==
    OncePerRuleAndMonth
      /\ [][SwitchKeepsLedger /\ ProjectsEnabledOnly /\ OncePerRuleAndMonth']_vars

(* A rule with an entry in a month was switched off and on again, and the
   month was projected once more, which appended nothing. *)
ProjectedAgainAfterReenabling ==
    /\ lastOp.op = "generate"
    /\ lastOp.reenabled # Undefined
    /\ lastOp.added = 0
    /\ \E t \in Range(transactions) :
          t.recurringId = lastOp.reenabled /\ startsWith(t.date, lastOp.period)

(***************************************************************************)
(* SummaryCards: the figures of a period.                                  *)
(*                                                                         *)
(* view is the props [viewMode, currentMonth, currentYear] of the card,    *)
(* <<>> before it is shown; summary is [cashflow, overspent] as the two    *)
(* useMemo blocks compute them.  A rate is the pair <<numerator,           *)
(* denominator>> of the division.  spendByCategory is an object whose keys *)
(* come in the order of their first entry (category names are not written  *)
(* as integers).                                                           *)
(***************************************************************************)
StrTransferTo == <<"t", "r", "a", "n", "s", "f", "e", "r", " ", "t", "o">>
StrTransferFrom == <<"t", "r", "a", "n", "s", "f", "e", "r", " ", "f", "r", "o", "m">>
StrTrfTo == <<"t", "r", "f", " ", "t", "o">>
StrTrfFr == <<"t", "r", "f", " ", "f", "r">>
StrOverdraftTransfer == <<"o", "v", "e", "r", "d", "r", "a", "f", "t", " ", "t", "r", "a", "n", "s", "f", "e", "r">>
StrTransfer == <<"t", "r", "a", "n", "s", "f", "e", "r">>

(* viewMode === 'year' ? (currentYear || currentMonth.slice(0, 4)) : currentMonth *)
periodKey(v) ==
    IF v.viewMode = "year"
    THEN OrElse(v.currentYear, SubSeq(v.currentMonth, 1, 4))
    ELSE v.currentMonth

(* transactions.filter(t => t.date.startsWith(periodKey)) *)
tx(txs, v) == SelectSeq(txs, LAMBDA t : startsWith(t.date, periodKey(v)))

isTransferDesc(desc) ==
    LET d == toLowerCase(desc)
    IN  \/ includes(d, StrTransferTo)
        \/ includes(d, StrTransferFrom)
        \/ includes(d, StrTrfTo)
        \/ includes(d, StrTrfFr)
        \/ includes(d, StrOverdraftTransfer)

cashflow(ptx) ==
    LET income == SumOfTypes(ptx, {"income"})
        spend == SumAmounts(SelectSeq(ptx, LAMBDA t :
                     \/ (t.type = "expense" /\ ~isTransferDesc(t.description))
                     \/ t.type = "debt-charge"
                     \/ t.type = "debt-interest"))
        debtPayments == SumOfTypes(ptx, {"debt", "debt-payment"})
        chargedDebtIds ==
            { t.debtAccountId :
                t \in { u \in Range(ptx) : u.type \in {"debt-charge", "debt-interest"} } }
              \ {Undefined}
        debtPaymentsLoanOnly ==
            SumAmounts(SelectSeq(ptx, LAMBDA t :
                /\ t.type \in {"debt", "debt-payment"}
                /\ (t.debtAccountId = Undefined \/ t.debtAccountId \notin chargedDebtIds)))
        savings == SumOfTypes(ptx, {"asset-deposit"})
    IN  [income |-> income,
         spend |-> spend,
         debtPayments |-> debtPayments,
         savings |-> savings,
         cashLeft |-> income - (spend + savings + debtPaymentsLoanOnly),
         savingsRate |-> IF income > 0 THEN <<savings, income>> ELSE <<0, 1>>,
         debtPayoffRate |-> IF income > 0 THEN <<debtPayments, income>> ELSE <<0, 1>>]

(* The keys of spendByCategory, in the order of their first entry. *)
RECURSIVE KeysInOrder(_, _)
KeysInOrder(entries, seen) ==
    IF entries = <<>> THEN <<>>
    ELSE IF Head(entries).category \in seen
         THEN KeysInOrder(Tail(entries), seen)
         ELSE <<Head(entries).category>>
                \o KeysInOrder(Tail(entries), seen \cup {Head(entries).category})

(* Array.prototype.sort with (a, b) => b.overBy - a.overBy: stable, largest
   first. *)
RECURSIVE SortByOverage(_)
SortByOverage(rows) ==
    IF rows = <<>> THEN <<>>
    ELSE LET rest == SortByOverage(SubSeq(rows, 1, Len(rows) - 1))
             last == rows[Len(rows)]
             before == SelectSeq(rest, LAMBDA x : x.overBy >= last.overBy)
             after == SelectSeq(rest, LAMBDA x : x.overBy < last.overBy)
         IN  before \o <<last>> \o after

(* .slice(0, n) *)
slice(seq, n) == SubSeq(seq, 1, Min(n, Len(seq)))

(* spendByCategory as budgetHealth fills it: Object.entries of it, one pair
   of category and actual for each key. *)
spendByCategory(ptx) ==
    LET eligible == SelectSeq(ptx, LAMBDA t :
                        \/ (t.type = "expense"
                              /\ ~includes(toLowerCase(t.description), StrTransfer))
                        \/ t.type = "debt-charge"
                        \/ t.type = "debt-interest")
        keys == KeysInOrder(eligible, {})
    IN  [k \in 1 .. Len(keys) |->
            [category |-> keys[k],
             actual |-> SumAmounts(SelectSeq(eligible,
                                             LAMBDA t : t.category = keys[k]))]]

(* The rows of budgetHealth before .slice(0, 3). *)
OverspentRows(ptx, budgets, viewMode) ==
    LET entries == spendByCategory(ptx)
        keys == [k \in 1 .. Len(entries) |-> entries[k].category]
        budgetMultiplier == IF viewMode = "year" THEN 12 ELSE 1
        row(category) ==
            LET actual == (CHOOSE e \in Range(entries) : e.category = category).actual
                budget == (IF category \in DOMAIN budgets THEN budgets[category] ELSE 0)
                            * budgetMultiplier
            IN  [category |-> category, actual |-> actual, budget |-> budget,
                 overBy |-> IF budget > 0 THEN actual - budget ELSE 0]
        rows == [k \in 1 .. Len(keys) |-> row(keys[k])]
    IN  SortByOverage(SelectSeq(rows, LAMBDA x : x.overBy > 0))

(* Mutant: every overspent category is shown. *)
budgetHealthAll(ptx, budgets, viewMode) == OverspentRows(ptx, budgets, viewMode)

budgetHealth(ptx, budgets, viewMode) == slice(OverspentRows(ptx, budgets, viewMode), 3)

(* What the card shows for the props v. *)
Rendered(txs, budgets, v) ==
    IF v = <<>> THEN <<>>
    ELSE [cashflow |-> cashflow(tx(txs, v)),
          overspent |-> budgetHealth(tx(txs, v), budgets, v.viewMode)]

(* SummaryCards is shown with the props v. *)
render(v) ==
    /\ view' = v
    /\ summary' = Rendered(transactions, categoryBudgets, v)
    /\ UNCHANGED <<transactions, recurring, categoryBudgets, nextId, syncCall, feedOrigin,
                   lastOp, accountVars, fpArgs, fpResult>>
    /\ UNCHANGED <<serverVars, saveVars>>

(* setCategoryBudget(category, limit); the card, if shown, is computed anew. *)
setCategoryBudget(category, limit) ==
    /\ categoryBudgets' = (category :> limit) @@ categoryBudgets
    /\ summary' = Rendered(transactions, categoryBudgets', view)
    /\ UNCHANGED <<transactions, recurring, nextId, syncCall, feedOrigin,
                   lastOp, accountVars, fpArgs, fpResult, view>>
    /\ UNCHANGED <<serverVars, saveVars>>

(***************************************************************************)
(* SpecSummary: the card over the ledgers of up to MaxSummaryLedger of the *)
(* entries below, in the order of their ids.  The entries: a salary; a     *)
(* coffee; a transfer to savings booked as an expense; a card charge; loan *)
(* interest; payments to the card, to the loan, and to no account (of the  *)
(* legacy type); a deposit; a card charge of the month before; the rent;   *)
(* the bank's fee for a transfer.                                          *)
(***************************************************************************)
MaxSummaryLedger == 4

StrNov03 == <<"2", "0", "2", "5", "-", "1", "1", "-", "0", "3">>
StrOct05 == <<"2", "0", "2", "5", "-", "1", "0", "-", "0", "5">>
StrHome == <<"H", "o", "m", "e">>
StrFun == <<"F", "u", "n">>
StrCar == <<"C", "a", "r">>

SummaryEntries ==
    { Transaction(1, StrDay, <<"P", "a", "y">>, 1000000, "income", StrUncategorized,
                  Undefined, Undefined, Undefined),
      Transaction(2, StrDay, StrCaf, 3500, "expense", StrFood,
                  Undefined, Undefined, Undefined),
      Transaction(3, StrNov03, <<"T", "r", "a", "n", "s", "f", "e", "r", " ", "t", "o", " ", "S", "a", "v">>, 100000, "expense", StrHome,
                  Undefined, Undefined, Undefined),
      Transaction(4, StrDay, StrCard, 50000, "debt-charge", StrFun,
                  21, Undefined, Undefined),
      Transaction(5, StrNov03, StrCarLoan, 15000, "debt-interest", StrCar,
                  22, Undefined, Undefined),
      Transaction(6, StrNov03, StrCard, 200000, "debt-payment", StrUncategorized,
                  21, Undefined, Undefined),
      Transaction(7, StrNov03, StrCarLoan, 300000, "debt-payment", StrUncategorized,
                  22, Undefined, Undefined),
      Transaction(8, StrDay, StrCarLoan, 120000, "debt", StrUncategorized,
                  Undefined, Undefined, Undefined),
      Transaction(9, StrDay, StrSav, 100000, "asset-deposit", StrUncategorized,
                  Undefined, 23, Undefined),
      Transaction(10, StrOct05, StrCard, 20000, "debt-charge", StrFun,
                  21, Undefined, Undefined),
      Transaction(11, StrDay, <<"R", "e", "n", "t">>, 1200000, "expense", StrHome,
                  Undefined, Undefined, Undefined),
      Transaction(12, StrDay, <<"T", "r", "a", "n", "s", "f", "e", "r", " ", "f", "e", "e">>,
                  25000, "expense", StrHome, Undefined, Undefined, Undefined) }

(* The entries of S as a ledger, in the order of their ids. *)
RECURSIVE LedgerOf(_)
LedgerOf(S) ==
    IF S = {} THEN <<>>
    ELSE LET first == CHOOSE t \in S : \A u \in S : t.id <= u.id
         IN  <<first>> \o LedgerOf(S \ {first})

SummaryLedgers ==
    { LedgerOf(S) : S \in { X \in SUBSET SummaryEntries :
                                Cardinality(X) <= MaxSummaryLedger } }

Views ==
    { [viewMode |-> "month", currentMonth |-> <<"2", "0", "2", "5", "-", "1", "1">>, currentYear |-> <<>>],
      [viewMode |-> "month", currentMonth |-> <<"2", "0", "2", "5", "-", "1", "0">>, currentYear |-> <<>>],
      [viewMode |-> "year", currentMonth |-> <<"2", "0", "2", "5", "-", "1", "1">>, currentYear |-> <<>>] }

(* The budgets set: one for each of four categories, and none (zero) for
   food. *)
BudgetInputs ==
    { <<StrFood, 1000>>, <<StrFood, 0>>, <<StrHome, 1000>>, <<StrFun, 1000>>,
      <<StrCar, 1000>> }

InitSummary ==
    /\ InitServer
    /\ transactions \in SummaryLedgers
    /\ recurring = <<>>
    /\ categoryBudgets = <<>>
    /\ nextId = 13
    /\ syncCall = [busy |-> FALSE, transactions |-> <<>>]
    /\ feedOrigin = <<>>
    /\ lastOp = [op |-> "init"]
    /\ debts = <<>>
    /\ assets = <<>>
    /\ fpArgs = <<>>
    /\ fpResult = <<>>
    /\ view = <<>>
    /\ summary = <<>>
    /\ InitSave

NextSummary ==
    \/ \E v \in Views : render(v)
    \/ \E b \in BudgetInputs : setCategoryBudget(b[1], b[2])

SpecSummary == InitSummary /\ [][NextSummary]_vars

(***************************************************************************)
(* C18.  cashLeft = income - (spend + savings + P), where P is the sum of  *)
(* the period's debt payments (types debt-payment and debt) except those   *)
(* linked to a debt account that has a debt-charge entry in the period.    *)
(***************************************************************************)
RECURSIVE SetSum(_)
SetSum(S) ==
    IF S = {} THEN 0
    ELSE LET t == CHOOSE u \in S : TRUE
         IN  t.amount + SetSum(S \ {t})

PeriodEntries == { t \in Range(transactions) : startsWith(t.date, periodKey(view)) }

AccountsCharged ==
    { t.debtAccountId : t \in { u \in PeriodEntries : u.type = "debt-charge" } }

PaymentsSubtracted ==
    SetSum({ t \in PeriodEntries :
               /\ t.type \in {"debt-payment", "debt"}
               /\ (t.debtAccountId = Undefined \/ t.debtAccountId \notin AccountsCharged) })

CashLeftExcludesChargedAccounts ==
    view # <<>> =>
        summary.cashflow.cashLeft =
            summary.cashflow.income
              - (summary.cashflow.spend + summary.cashflow.savings + PaymentsSubtracted)

(***************************************************************************)
(* C19.  The overspent list holds the three largest overages, largest      *)
(* first, among the categories whose spend in the period is above the      *)
(* budget times 12 (year) or 1 (month).                                    *)
(*                                                                         *)
(* As claimed (OverspentTopThree): every category with a budget entry      *)
(* whose spend exceeds it counts.  As the code has it                      *)
(* (OverspentTopThreeOfBudgeted): a budget of zero is no budget, and a     *)
(* category with it is never listed.  The spend of a category is taken     *)
(* over the entries budgetHealth groups.                                   *)
(***************************************************************************)
Grouped ==
    { t \in PeriodEntries :
        \/ (t.type = "expense" /\ ~includes(toLowerCase(t.description), StrTransfer))
        \/ t.type \in {"debt-charge", "debt-interest"} }

Actual(category) == SetSum({ t \in Grouped : t.category = category })

PeriodBudget(category) ==
    categoryBudgets[category] * (IF view.viewMode = "year" THEN 12 ELSE 1)

OverBudget ==
    { c \in { t.category : t \in Grouped } \cap DOMAIN categoryBudgets :
        Actual(c) > PeriodBudget(c) }

OverBudgeted == { c \in OverBudget : categoryBudgets[c] > 0 }

(* `rows` lists the three largest overages of the categories in `over`. *)
IsTopThree(rows, over) ==
    /\ Len(rows) = Min(3, Cardinality(over))
    /\ \A k \in 1 .. Len(rows) :
          /\ rows[k].category \in over
          /\ rows[k].actual = Actual(rows[k].category)
          /\ rows[k].budget = PeriodBudget(rows[k].category)
          /\ rows[k].overBy = Actual(rows[k].category) - PeriodBudget(rows[k].category)
    /\ \A k, l \in 1 .. Len(rows) :
          /\ k < l => rows[k].overBy >= rows[l].overBy
          /\ rows[k].category = rows[l].category => k = l
    /\ \A c \in over \ { rows[k].category : k \in 1 .. Len(rows) } :
          \A k \in 1 .. Len(rows) : Actual(c) - PeriodBudget(c) <= rows[k].overBy

OverspentTopThree == view # <<>> => IsTopThree(summary.overspent, OverBudget)

OverspentTopThreeOfBudgeted == view # <<>> => IsTopThree(summary.overspent, OverBudgeted)

(* Four categories are over budget in the period shown, and three are
   listed. *)
FourOverBudgetThreeListed ==
    /\ view # <<>>
    /\ Cardinality(OverBudgeted) = 4
    /\ Len(summary.overspent) = 3

(***************************************************************************)
(* The automatic save.                                                     *)
(*                                                                         *)
(* The effect of the provider runs after every render in which one of      *)
(* transactions, user, debts, assets, categoryBudgets, recurring changed;  *)
(* it runs before anything else happens (EffectPending holds in between).  *)
(* Dependencies are compared by value here: a handler that stores what was *)
(* there already does not run the effect.  Time passes in steps of         *)
(* TickSizes milliseconds and never beyond the moment a timeout is due.    *)
(***************************************************************************)
SaveDelay == 2000

TickSizes == {1000}

Deps == <<transactions, user, debts, assets, categoryBudgets, recurring>>

EffectPending == effectDeps # Deps

(* The body the timeout callback sends: the values of the render the effect
   ran in. *)
Payload ==
    [email |-> user.email, password |-> user.key, transactions |-> transactions,
     debts |-> debts, assets |-> assets, categoryBudgets |-> categoryBudgets,
     recurring |-> recurring]

(* clearTimeout(syncTimeoutRef.current) *)
clearTimeout(pending, ref) == IF ref = 0 THEN pending ELSE Without(pending, ref)

(* Mutant: the timeout set before is left running. *)
autoSyncEffectNoClear ==
    /\ EffectPending
    /\ effectDeps' = Deps
    /\ IF user # NoUser
       THEN /\ timers' = Append(timers, [left |-> SaveDelay, payload |-> Payload])
            /\ syncTimeoutRef' = Len(timers')
            /\ burst' = IF burst.since < SaveDelay
                        THEN [since |-> 0, saves |-> 0,
                              edits |-> Min(3, burst.edits + 1),
                              span |-> IF burst.edits = 0 THEN 0
                                       ELSE Min(SaveDelay, burst.span + burst.since)]
                        ELSE [since |-> 0, saves |-> 0, edits |-> 1, span |-> 0]
       ELSE UNCHANGED <<timers, syncTimeoutRef, burst>>
    /\ UNCHANGED <<user, saveRequest>>
    /\ UNCHANGED <<transactions, recurring, categoryBudgets, nextId, syncCall, feedOrigin,
                   lastOp, accountVars, derivedVars>>
    /\ UNCHANGED serverVars

(* useEffect(() => { ...; if (user) { clearTimeout; setTimeout(..., 2000) } }) *)
autoSyncEffect ==
    /\ EffectPending
    /\ effectDeps' = Deps
    /\ IF user # NoUser
       THEN /\ timers' = Append(clearTimeout(timers, syncTimeoutRef),
                                [left |-> SaveDelay, payload |-> Payload])
            /\ syncTimeoutRef' = Len(timers')
            /\ burst' = IF burst.since < SaveDelay
                        THEN [since |-> 0, saves |-> 0,
                              edits |-> Min(3, burst.edits + 1),
                              span |-> IF burst.edits = 0 THEN 0
                                       ELSE Min(SaveDelay, burst.span + burst.since)]
                        ELSE [since |-> 0, saves |-> 0, edits |-> 1, span |-> 0]
       ELSE UNCHANGED <<timers, syncTimeoutRef, burst>>
    /\ UNCHANGED <<user, saveRequest>>
    /\ UNCHANGED <<transactions, recurring, categoryBudgets, nextId, syncCall, feedOrigin,
                   lastOp, accountVars, derivedVars>>
    /\ UNCHANGED serverVars

(* d milliseconds pass: no timeout is overdue. *)
timePasses(d) ==
    /\ ~EffectPending
    /\ \A k \in 1 .. Len(timers) : timers[k].left >= d
    /\ burst.since < SaveDelay \/ timers # <<>>
    /\ timers' = [k \in 1 .. Len(timers) |-> [timers[k] EXCEPT !.left = @ - d]]
    /\ burst' = [burst EXCEPT !.since = Min(SaveDelay, @ + d)]
    /\ UNCHANGED <<user, effectDeps, syncTimeoutRef, saveRequest>>
    /\ UNCHANGED <<transactions, recurring, categoryBudgets, nextId, syncCall, feedOrigin,
                   lastOp, accountVars, derivedVars>>
    /\ UNCHANGED serverVars

(* The callback of the oldest timeout runs: fetch('/api/sync', POST, payload). *)
timerCallback ==
    /\ ~EffectPending
    /\ timers # <<>>
    /\ Head(timers).left = 0
    /\ saveRequest' = <<[payload |-> Head(timers).payload, after |-> burst.since]>>
    /\ burst' = [burst EXCEPT !.saves = Min(2, @ + 1)]
    /\ timers' = Tail(timers)
    /\ syncTimeoutRef' = Max(0, syncTimeoutRef - 1)
    /\ UNCHANGED <<user, effectDeps>>
    /\ UNCHANGED <<transactions, recurring, categoryBudgets, nextId, syncCall, feedOrigin,
                   lastOp, accountVars, derivedVars>>

(* The same where the endpoint is left out. *)
timerFires == timerCallback /\ UNCHANGED serverVars

(***************************************************************************)
(* SpecAutosave: a user who is logged in when the page is opened adds and  *)
(* edits entries while time passes.  The effect of the first render has    *)
(* run: its timeout is set.                                                *)
(***************************************************************************)
InitAutosave ==
    /\ InitServer
    /\ InitProvider
    /\ user = StoredUser
    /\ effectDeps = Deps
    /\ timers = <<[left |-> SaveDelay, payload |-> Payload]>>
    /\ syncTimeoutRef = 1
    /\ saveRequest = <<>>
    /\ burst = [since |-> 0, saves |-> 0, edits |-> 0, span |-> 0]

NextAutosave ==
    \/ \E form \in LedgerForms : ~EffectPending /\ handleSubmit(form)
    \/ \E i \in 1 .. Len(transactions) :
          \E updated \in LedgerEdits(transactions[i]) :
              ~EffectPending /\ editTransaction(i, updated)
    \/ \E i \in 1 .. Len(transactions) : ~EffectPending /\ deleteTransaction(i)
    \/ autoSyncEffect
    \/ \E d \in TickSizes : timePasses(d)
    \/ timerFires

SpecAutosave == InitAutosave /\ [][NextAutosave]_vars

(***************************************************************************)
(* C20.  Edits that follow one another by less than SaveDelay give one     *)
(* save request, SaveDelay after the last of them, with the ledger as that *)
(* edit left it: a request is sent only when SaveDelay has passed since    *)
(* the effect last ran, it carries the values the provider has then, no    *)
(* second request follows without another edit, and SaveDelay does not     *)
(* pass without the request.                                               *)
(***************************************************************************)
OneSavePerBurst ==
    /\ burst.saves <= 1
    /\ (saveRequest # <<>>) => (saveRequest[1].after = SaveDelay)
    /\ (burst.saves = 1 /\ ~EffectPending) =>
          /\ saveRequest[1].payload.transactions = transactions
          /\ saveRequest[1].payload.debts = debts
          /\ saveRequest[1].payload.assets = assets
          /\ saveRequest[1].payload.categoryBudgets = categoryBudgets
          /\ saveRequest[1].payload.recurring = recurring
          /\ saveRequest[1].payload.email = user.email
    /\ (burst.since = SaveDelay /\ ~EffectPending) =>
          \/ burst.saves = 1
          \/ (Len(timers) = 1 /\ timers[1].left = 0 /\ timers[1].payload.transactions = transactions)

(* Three edits, each less than SaveDelay after the one before and the last
   SaveDelay or more after the first, and then the request with the ledger
   of the third. *)
BurstOfThreeSaved ==
    /\ burst.saves = 1
    /\ burst.edits = 3
    /\ burst.span = SaveDelay
    /\ saveRequest # <<>>
    /\ lastOp.op = "edit"
    /\ saveRequest[1].payload.transactions = transactions

(***************************************************************************)
(* SpecSave: two sessions of one user save documents to the same record.   *)
(* Each request is handled in two steps, the get and the put, and the      *)
(* steps of the two handlers interleave freely.                            *)
(***************************************************************************)
SaveBody(password, txs, ds, as, budgets, rules) ==
    [email |-> Json(TRUE, StoredUser.email), password |-> Json(TRUE, password),
     transactions |-> txs, debts |-> ds, assets |-> as,
     categoryBudgets |-> budgets, recurring |-> rules]

(* Items of the collections are opaque to the endpoint (unknown[]). *)
BodyA ==
    SaveBody(StoredUser.key, Json(TRUE, <<"t1">>), Json(TRUE, <<"d1">>),
             Json(TRUE, <<"a1">>), Json(TRUE, <<<<"Food", 100>>>>), Json(TRUE, <<"r1">>))

BodyB ==
    SaveBody(StoredUser.key, Json(TRUE, <<"t1", "t2">>), Json(TRUE, <<"d2">>),
             Json(TRUE, <<"a1", "a2">>), Json(TRUE, <<<<"Food", 250>>>>),
             Json(TRUE, <<"r2">>))

SaveBodies ==
    { BodyA, BodyB,
      \* only transactions; the other collections are empty
      SaveBody(StoredUser.key, Json(TRUE, <<"t3">>), Json(TRUE, <<>>), Json(TRUE, <<>>),
               Json(TRUE, <<>>), Json(TRUE, <<>>)),
      \* transactions is no array, categoryBudgets is an array
      SaveBody(StoredUser.key, Json(FALSE, <<"t4">>), Json(TRUE, <<"d1">>),
               Json(TRUE, <<"a1">>), Json(FALSE, <<"x">>), Json(TRUE, <<"r1">>)),
      \* another password
      SaveBody(<<"p", "x">>, Json(TRUE, <<"t5">>), Json(TRUE, <<>>), Json(TRUE, <<>>),
               Json(TRUE, <<>>), Json(TRUE, <<>>)),
      \* no email
      [BodyA EXCEPT !.email = Json(FALSE, <<>>)] }

StoredDocuments ==
    { <<>>,
      <<EmptyDocument>>,
      <<[EmptyDocument EXCEPT !.transactions = <<"t0">>, !.debts = <<"d0">>,
                              !.assets = <<"a0">>,
                              !.categoryBudgets = <<<<"Food", 50>>>>,
                              !.recurring = <<"r0">>,
                              !.openRouterKey = <<"k">>]>> }

InitSaves ==
    /\ clock = StartEpoch
    /\ ticks = 0
    /\ kvAccessUrl \in {Undefined, 1}
    /\ kvLastSyncEpoch = Undefined
    /\ nextCred = 2
    /\ InitRound
    /\ kvDoc \in StoredDocuments
    /\ saving = [s \in Sessions |-> IdleSave]
    /\ lastPut = <<>>
    /\ otherRound = <<>>
    /\ InitClient

NextSave ==
    \/ \E s \in Sessions, body \in SaveBodies : SaveBegin(s, body)
    \/ \E s \in Sessions : SavePut(s)

SpecSave == InitSaves /\ [][NextSave]_vars

(***************************************************************************)
(* C21.  After a save's put the stored record holds, in each of its five   *)
(* collections, what that save's request carried (nothing where the        *)
(* request's value was not of the expected kind), whatever was stored      *)
(* before and whatever the handler of the other session has read or        *)
(* written: the save whose put came last determines the five collections.  *)
(***************************************************************************)
FiveCollections == {"transactions", "debts", "assets", "categoryBudgets", "recurring"}

LastSaveDetermines ==
    lastPut # <<>> =>
        /\ kvDoc # <<>>
        /\ \A name \in FiveCollections :
              kvDoc[1][name] = IF lastPut[1].body[name].ok
                               THEN lastPut[1].body[name].value ELSE <<>>

(* Both handlers had read the record before either wrote; session 1 wrote,
   then session 2: what session 2 replaced is not what it had read, and the
   record differs from the one it replaced in all five collections. *)
SecondOfTwoInterleavedSaves ==
    /\ lastPut # <<>>
    /\ lastPut[1].session = 2
    /\ saving[1].status = 200
    /\ lastPut[1].over # lastPut[1].read
    /\ lastPut[1].over # <<>>
    /\ \A name \in FiveCollections :
          /\ lastPut[1].over[1][name] # <<>>
          /\ kvDoc[1][name] # lastPut[1].over[1][name]

(***************************************************************************)
(* SpecRound: one call of simplefinSync in the browser, from the request   *)
(* to the merge of the answer, with the round the endpoint runs for it.    *)
(* The feed answers each window with transactions and possibly a list of   *)
(* errors, or the request fails.                                           *)
(***************************************************************************)
FeedErrorLists == {<<>>, <<"e">>}

RoundDaysBack == {Undefined, 150}

InitRoundTrip ==
    /\ clock = StartEpoch
    /\ ticks = 0
    /\ kvAccessUrl = 1
    /\ kvLastSyncEpoch \in {Undefined, StartEpoch - 10 * secondsPerDay}
    /\ nextCred = 2
    /\ InitRound
    /\ InitStore
    /\ InitLoggedIn

(* res of fetch('/api/simplefin') arrives: !res.ok throws into the catch,
   otherwise data.transactions is merged. *)
SimplefinSyncReceive ==
    /\ pc = "idle"
    /\ response.kind # "none"
    /\ IF response.status = 200
       THEN SimplefinSyncMerge(response.transactions)
       ELSE SimplefinSyncError

NextRoundTrip ==
    \/ response.kind = "none" /\ SimplefinSyncCall
    \/ \E daysBack \in RoundDaysBack : syncCall.busy /\ PlanRound(daysBack)
    \/ FetchChunkSend
    \/ \E acc \in FeedAccounts, txns \in FeedResponses, chunkErrors \in FeedErrorLists :
          FetchChunkReturns(acc, txns, chunkErrors)
    \/ FetchChunkFail
    \/ SyncCommit
    \/ SimplefinSyncReceive

SpecRound == InitRoundTrip /\ [][NextRoundTrip]_vars

(***************************************************************************)
(* C25.  As stated: a round in which a window failed, or in which the feed *)
(* listed an error for a window, requests no later window, is answered     *)
(* with an error, and leaves the ledger and the cursor as they were.       *)
(***************************************************************************)
RoundAborted ==
    /\ Len(requests) = fetched + 1
    /\ pc = "idle"
    /\ response.status = 400
    /\ response.transactions = <<>>
    /\ kvLastSyncEpoch = existing.simplefinLastSyncEpoch
    /\ transactions = <<>>

AnyWindowErrorAbortsRound ==
    /\ response.kind = "fetch-failed" => RoundAborted
    /\ errors # <<>> =>
          /\ Len(requests) = fetched
          /\ response.kind # "sync-ok"
          /\ kvLastSyncEpoch = existing.simplefinLastSyncEpoch
          /\ transactions = <<>>

(* C25, amended.  A round in which a window's request failed requests no   *)
(* later window, is answered 400 without transactions, and leaves the      *)
(* ledger and the cursor as they were, whatever the earlier windows        *)
(* brought.  Errors the feed lists in an answer do not fail the window:    *)
(* a round that succeeds returns all of them with all its transactions.    *)
FailedWindowAbortsRound ==
    /\ response.kind = "fetch-failed" => RoundAborted
    /\ response.kind = "sync-ok" =>
          /\ response.errors = errors
          /\ response.transactions = imported
          /\ fetched = Len(chunks)

(* The third window of a backfill failed after an earlier window had
   brought a transaction, and the browser has taken the answer. *)
ThirdWindowFailedAfterImport ==
    /\ response.kind = "fetch-failed"
    /\ Len(chunks) = 3
    /\ fetched = 2
    /\ imported # <<>>
    /\ ~syncCall.busy
    /\ transactions = <<>>

(***************************************************************************)
(* C27.  A projection of month p appends one entry for each rule that is   *)
(* enabled, has no startMonth later than p, and has no entry in the ledger *)
(* whose date starts with p; it appends nothing for any other rule and     *)
(* nothing that belongs to no rule, and the entries that were there stay   *)
(* as and where they were.                                                 *)
(***************************************************************************)
IsMonth(p) ==
    /\ Len(p) = 7
    /\ p[5] = "-"
    /\ SubSeq(p, 6, 7) \in { <<"0", d>> : d \in {"1", "2", "3", "4", "5", "6", "7", "8", "9"} }
                             \cup { <<"1", "0">>, <<"1", "1">>, <<"1", "2">> }

Due(r, p) ==
    /\ r.enabled
    /\ ~StrLess(p, r.startMonth)
    /\ ~ \E t \in Range(transactions) :
            t.recurringId = r.id /\ SubSeq(t.date, 1, Len(p)) = p

ProjectionAppendsDueRules ==
    [][\A p \in Periods :
          (IsMonth(p) /\ generateRecurringForMonth(p)) =>
              LET new == (Len(transactions) + 1) .. Len(transactions')
              IN  /\ Len(transactions') >= Len(transactions)
                  /\ SubSeq(transactions', 1, Len(transactions)) = transactions
                  /\ \A r \in Range(recurring) :
                        Cardinality({ k \in new : transactions'[k].recurringId = r.id })
                            = IF Due(r, p) THEN 1 ELSE 0
                  /\ \A k \in new :
                        \E r \in Range(recurring) : transactions'[k].recurringId = r.id]_vars

(* Two enabled rules, a month before the startMonth of one of them: the
   projection appended the entry of the other alone. *)
RuleBeforeItsStartPassedOver ==
    /\ lastOp.op = "generate"
    /\ lastOp.added = 1
    /\ Len(recurring) = 2
    /\ \A i \in 1 .. 2 : recurring[i].enabled
    /\ \E i \in 1 .. 2 : StrLess(lastOp.period, recurring[i].startMonth)
    /\ Len(transactions) = 1
    /\ \E i \in 1 .. 2 :
          /\ transactions[1].recurringId = recurring[i].id
          /\ ~StrLess(lastOp.period, recurring[i].startMonth)

(***************************************************************************)
(* SpecProjection: one stored rule, with every dayOfMonth, category and    *)
(* account link of ProjectionRules, is projected into months of 28, 29, 30 *)
(* and 31 days.                                                            *)
(***************************************************************************)
ProjectionDays == {0, 1, 15, 28, 29, 30, 31}

ProjectionRules ==
    { [id |-> 3, description |-> <<"R", "e", "n", "t">>, amount |-> 1200000,
       type |-> link.type, category |-> category, dayOfMonth |-> day, enabled |-> TRUE,
       startMonth |-> <<"2", "0", "2", "4", "-", "0", "1">>,
       debtAccountId |-> link.debt, assetAccountId |-> link.asset] :
        day \in ProjectionDays,
        category \in {<<"H", "o", "m", "e">>, <<>>},
        link \in { [type |-> "expense", debt |-> Undefined, asset |-> Undefined],
                   [type |-> "debt-payment", debt |-> 1, asset |-> Undefined],
                   [type |-> "asset-deposit", debt |-> Undefined, asset |-> 2] } }

(* The months projected, each with the number of its last day. *)
LastDayOf ==
    [p \in { <<"2", "0", "2", "4", "-", "0", "2">>, <<"2", "0", "2", "5", "-", "0", "2">>,
             <<"2", "0", "2", "5", "-", "0", "4">>, <<"2", "0", "2", "5", "-", "1", "2">> } |->
        CASE p = <<"2", "0", "2", "4", "-", "0", "2">> -> 29
          [] p = <<"2", "0", "2", "5", "-", "0", "2">> -> 28
          [] p = <<"2", "0", "2", "5", "-", "0", "4">> -> 30
          [] OTHER -> 31]

InitProjection ==
    /\ InitServer
    /\ transactions = <<>>
    /\ \E r \in ProjectionRules : recurring = <<r>>
    /\ categoryBudgets = <<>>
    /\ nextId = 4
    /\ syncCall = [busy |-> FALSE, transactions |-> <<>>]
    /\ feedOrigin = <<>>
    /\ lastOp = [op |-> "init"]
    /\ debts = <<[Account(StrCard, 1000000) EXCEPT !.id = 1]>>
    /\ assets = <<[Account(StrSav, 500000) EXCEPT !.id = 2]>>
    /\ fpArgs = <<>>
    /\ fpResult = <<>>
    /\ view = <<>>
    /\ summary = <<>>
    /\ InitSave

NextProjection ==
    \E yyyyMM \in DOMAIN LastDayOf : generateRecurringForMonth(yyyyMM)

SpecProjection == InitProjection /\ [][NextProjection]_vars

(***************************************************************************)
(* C28.  As stated: the entry projected for rule r into month p is dated   *)
(* p-DD, DD the two digits of r.dayOfMonth brought into 1 .. last day of   *)
(* p, has the rule's description, amount, type, category and account       *)
(* links, and recurringId r.id.                                            *)
(***************************************************************************)
TwoDigits(n) == <<DigitChars[(n \div 10) + 1], DigitChars[(n % 10) + 1]>>

ClampedDay(r, p) ==
    IF r.dayOfMonth < 1 THEN 1
    ELSE IF r.dayOfMonth > LastDayOf[p] THEN LastDayOf[p] ELSE r.dayOfMonth

ProjectedFrom(t, r, p) ==
    /\ t.date = p \o <<"-">> \o TwoDigits(ClampedDay(r, p))
    /\ SubSeq(t.date, 1, 7) = p
    /\ t.description = r.description
    /\ t.amount = r.amount
    /\ t.type = r.type
    /\ t.debtAccountId = r.debtAccountId
    /\ t.assetAccountId = r.assetAccountId
    /\ t.recurringId = r.id

RECURSIVE SumActuals(_)
SumActuals(entries) ==
    IF entries = <<>> THEN 0
    ELSE Head(entries).actual + SumActuals(Tail(entries))

SpendEligible ==
    { t \in PeriodEntries :
        \/ (t.type = "expense" /\ ~isTransferDesc(t.description))
        \/ t.type \in {"debt-charge", "debt-interest"} }

ActualsSumToSpend ==
    view # <<>> =>
        /\ summary.cashflow.spend = SetSum(SpendEligible)
        /\ SumActuals(spendByCategory(tx(transactions, view))) = summary.cashflow.spend
        /\ \A e \in Range(spendByCategory(tx(transactions, view))) :
              e.actual = SetSum({ t \in SpendEligible : t.category = e.category })

(***************************************************************************)
(* SpecRuleEntries: one rule, its projection into two months, and the      *)
(* handlers that touch its entries or the rule in between: the edit form   *)
(* with another date typed in (it keeps recurringId), deletion, the        *)
(* rule's switch, and the rule form.                                       *)
(***************************************************************************)
(* editRecurring(id, updated): the rule at position i gets the fields of
   `updated` and keeps its id. *)
editRecurring(i, updated) ==
    /\ i \in 1 .. Len(recurring)
    /\ recurring' = [recurring EXCEPT ![i] = [updated EXCEPT !.id = recurring[i].id]]
    /\ lastOp' = [op |-> "rule"]
    /\ UNCHANGED <<transactions, categoryBudgets, nextId, syncCall, feedOrigin>>
    /\ UNCHANGED outsideLedger

RuleEntryPeriods ==
    { <<"2", "0", "2", "5", "-", "1", "0">>, <<"2", "0", "2", "5", "-", "1", "1">> }

(* The dates typed into the edit form. *)
RuleEntryDates ==
    { <<"2", "0", "2", "5", "-", "1", "0", "-", "1", "5">>,
      <<"2", "0", "2", "5", "-", "1", "1", "-", "1", "5">> }

(* The rule form submitted with another amount. *)
RuleEdits(r) == { [r EXCEPT !.amount = 1250000] }

NextRuleEntries ==
    \/ Len(recurring) = 0 /\ addRecurring(RentRule)
    \/ \E i \in 1 .. Len(recurring) : toggleRecurring(i, ~recurring[i].enabled)
    \/ \E i \in 1 .. Len(recurring) :
          \E updated \in RuleEdits(recurring[i]) : editRecurring(i, updated)
    \/ \E yyyyMM \in RuleEntryPeriods : generateRecurringForMonth(yyyyMM)
    \/ \E i \in 1 .. Len(transactions) :
          \E d \in RuleEntryDates :
              editTransaction(i, [transactions[i] EXCEPT !.date = d])
    \/ \E i \in 1 .. Len(transactions) : deleteTransaction(i)

SpecRuleEntries == InitRecurring /\ [][NextRuleEntries]_vars

MovedToAnotherMonth ==
    \E i \in 1 .. Len(transactions) :
        /\ Len(transactions') = Len(transactions)
        /\ transactions[i].recurringId # Undefined
        /\ MonthOf(transactions'[i].date) # MonthOf(transactions[i].date)

SaveKeepsFeedConnection ==
    [][SaveDocument =>
          /\ kvAccessUrl' = kvAccessUrl
          /\ kvLastSyncEpoch' = kvLastSyncEpoch]_vars

(***************************************************************************)
(* Requests of one user that the endpoints handle at the same time.  Each  *)
(* invocation of onRequestPost has its own locals; the KV record is all    *)
(* they share.  The round of the variables pc, existing, ... is followed   *)
(* window by window; of a second sync request only its get and its put     *)
(* are followed (its windows touch nothing that is stored, and its answer  *)
(* goes to its own caller).                                                *)
(***************************************************************************)
(* The second request's get, and `end` taken from the clock. *)
OtherRoundBegin ==
    /\ otherRound = <<>>
    /\ kvAccessUrl # Undefined
    /\ otherRound' = <<[existing |-> [simplefinAccessUrl |-> kvAccessUrl,
                                      simplefinLastSyncEpoch |-> kvLastSyncEpoch,
                                      document |-> kvDoc],
                        end |-> clock]>>
    /\ UNCHANGED <<clock, ticks, kvAccessUrl, kvLastSyncEpoch, nextCred, pc, roundVars,
                   response, lastCommitCred, kvDoc, saving, lastPut>>
    /\ UNCHANGED clientVars

(* Its windows were fetched: { ...existing, simplefinLastSyncEpoch: end }
   is put. *)
OtherRoundCommit ==
    /\ otherRound # <<>>
    /\ kvAccessUrl' = otherRound[1].existing.simplefinAccessUrl
    /\ kvLastSyncEpoch' = otherRound[1].end
    /\ kvDoc' = otherRound[1].existing.document
    /\ lastCommitCred' = otherRound[1].existing.simplefinAccessUrl
    /\ otherRound' = <<>>
    /\ UNCHANGED <<clock, ticks, nextCred, pc, roundVars, response, saving, lastPut>>
    /\ UNCHANGED clientVars

(* One of its windows failed: nothing is put. *)
OtherRoundFail ==
    /\ otherRound # <<>>
    /\ otherRound' = <<>>
    /\ UNCHANGED <<clock, ticks, kvAccessUrl, kvLastSyncEpoch, nextCred, pc, roundVars,
                   response, lastCommitCred, kvDoc, saving, lastPut>>
    /\ UNCHANGED clientVars

OverlapBodies == {BodyA}

NextOverlap ==
    \/ Tick(3600)
    \/ DisconnectRequest
    \/ ClaimRequestOk
    \/ SyncBegin(Undefined)
    \/ FetchChunkSend
    \/ \E acc \in FeedAccounts : FetchChunkOk(acc, <<>>)
    \/ FetchChunkFail
    \/ SyncCommit
    \/ \E body \in OverlapBodies : SaveBegin(1, body)
    \/ SavePut(1)

InitOverlap == InitServer /\ InitLoggedIn

SpecOverlap == InitOverlap /\ [][NextOverlap]_vars

(* Two sync requests of a connected user at the same time. *)
NextTwoRounds ==
    \/ \E d \in TickSeconds : Tick(d)
    \/ ClaimOk
    \/ SyncBegin(Undefined)
    \/ FetchChunkSend
    \/ \E acc \in FeedAccounts : FetchChunkOk(acc, <<>>)
    \/ FetchChunkFail
    \/ SyncCommit
    \/ OtherRoundBegin
    \/ OtherRoundCommit
    \/ OtherRoundFail

SpecTwoRounds == InitOverlap /\ [][NextTwoRounds]_vars

(***************************************************************************)
(* C34.  The put that ends a sync round leaves the stored credential and   *)
(* the stored document as they are at that moment: what a disconnect, a    *)
(* claim or a save stored while the round was in flight is still there.    *)
(***************************************************************************)
CommitKeepsOthersUpdates ==
    [][SyncCommit => (kvAccessUrl' = kvAccessUrl /\ kvDoc' = kvDoc)]_vars

(***************************************************************************)
(* C39.  While the feed stays connected, the put that ends a sync round    *)
(* stores a cursor that is not below the cursor stored before it.          *)
(***************************************************************************)
CursorNeverDecreases ==
    [][((SyncCommit \/ OtherRoundCommit)
          /\ kvAccessUrl' = kvAccessUrl
          /\ kvLastSyncEpoch # Undefined)
          => kvLastSyncEpoch' >= kvLastSyncEpoch]_vars

(***************************************************************************)
(* C35.  A feed merge appends no entry whose fingerprint an entry of the   *)
(* ledger has at the moment of the append.                                 *)
(***************************************************************************)
MergeSeesLedgerAtAppend ==
    [][lastOp'.op = "merge" =>
          \A k \in (Len(transactions) + 1) .. Len(transactions') :
              FingerprintOfStored(transactions'[k])
                  \notin { FingerprintOfStored(t) : t \in Range(transactions) }]_vars

(***************************************************************************)
(* SpecInFlight: the automatic save together with the endpoint.  The       *)
(* request of a timeout callback is in flight (saving[s].pc = "sent")      *)
(* until the endpoint's handler reads the record for it; the handler's get *)
(* and put are separate steps, and requests in flight are taken up in any  *)
(* order.  The user may log out.                                           *)
(***************************************************************************)
(* JSON.stringify(payload) as the endpoint parses it. *)
RequestBody(payload) ==
    [email |-> Json(TRUE, payload.email), password |-> Json(TRUE, payload.password),
     transactions |-> Json(TRUE, payload.transactions),
     debts |-> Json(TRUE, payload.debts), assets |-> Json(TRUE, payload.assets),
     categoryBudgets |-> Json(TRUE, payload.categoryBudgets),
     recurring |-> Json(TRUE, payload.recurring)]

(* The callback of the oldest timeout runs and its request leaves on
   connection s. *)
timerFiresSending(s) ==
    /\ saving[s].pc = "idle"
    /\ timerCallback
    /\ saving' = [saving EXCEPT ![s] = [pc |-> "sent",
                                        body |-> RequestBody(Head(timers).payload),
                                        existing |-> <<>>, status |-> 0]]
    /\ UNCHANGED <<clock, ticks, kvAccessUrl, kvLastSyncEpoch, nextCred, pc, roundVars,
                   response, lastCommitCred, kvDoc, lastPut, otherRound>>

(* The endpoint takes up the request of connection s. *)
SaveArrives(s) == saving[s].pc = "sent" /\ SaveGet(s, saving[s].body)

(* logout(): setUser(null). *)
logout ==
    /\ ~EffectPending
    /\ user # NoUser
    /\ user' = NoUser
    /\ UNCHANGED <<effectDeps, timers, syncTimeoutRef, saveRequest, burst>>
    /\ UNCHANGED <<transactions, recurring, categoryBudgets, nextId, syncCall, feedOrigin,
                   lastOp, accountVars, derivedVars>>
    /\ UNCHANGED serverVars

NextInFlight ==
    \/ \E form \in LedgerForms : ~EffectPending /\ handleSubmit(form)
    \/ autoSyncEffect
    \/ \E d \in TickSizes : timePasses(d)
    \/ \E s \in Sessions : timerFiresSending(s)
    \/ \E s \in Sessions : SaveArrives(s)
    \/ \E s \in Sessions : SavePut(s)
    \/ logout

SpecInFlight == InitAutosave /\ [][NextInFlight]_vars

(***************************************************************************)
(* C36.  When no automatic save is pending or in flight any more, the      *)
(* stored document holds the provider's collections as they are, also      *)
(* when two requests were in flight together.                              *)
(***************************************************************************)
SavesAtRest ==
    /\ ~EffectPending
    /\ timers = <<>>
    /\ \A s \in Sessions : saving[s].pc = "idle"
    /\ lastPut # <<>>

StoredIsLatestAtRest ==
    (user # NoUser /\ SavesAtRest) =>
        /\ kvDoc # <<>>
        /\ kvDoc[1].transactions = transactions
        /\ kvDoc[1].debts = debts
        /\ kvDoc[1].assets = assets
        /\ kvDoc[1].categoryBudgets = categoryBudgets
        /\ kvDoc[1].recurring = recurring

(***************************************************************************)
(* C37.  No timeout callback sends a save request while no user is logged  *)
(* in.                                                                     *)
(***************************************************************************)
NoSaveAfterLogout ==
    [][(\E s \in Sessions : timerFiresSending(s)) => user # NoUser]_vars

(***************************************************************************)
(* C38.  A feed merge appends every entry of the response whose externalId *)
(* no ledger entry was imported under and no earlier entry of the response *)
(* has, whatever its fingerprint.                                          *)
(***************************************************************************)
ImportedUnder == { feedOrigin[t.id] : t \in { u \in Range(transactions) : u.id \in DOMAIN feedOrigin } }

NewExternalIdAppended ==
    [][MergeStep =>
          LET batch == lastOp'.batch
              new == (Len(transactions) + 1) .. Len(transactions')
          IN  \A k \in 1 .. Len(batch) :
                  (/\ batch[k].externalId \notin ImportedUnder
                   /\ \A j \in 1 .. (k - 1) : batch[j].externalId # batch[k].externalId)
                      => \E i \in new :
                            /\ transactions'[i].id \in DOMAIN feedOrigin'
                            /\ feedOrigin'[transactions'[i].id] = batch[k].externalId]_vars

(***************************************************************************)
(* C40.  A sync round plans at least one request and at most seven, and no *)
(* request for a sync is answered with the capacity error.                 *)
(***************************************************************************)
PlannedCountWithinSeven ==
    /\ response.kind # "capacity"
    /\ pc = "fetching" =>
          /\ Len(chunks) >= 1
          /\ Len(chunks) <= 7
          /\ Len(chunks) <= maxRequestsPerDay
          /\ requestedDaysBack >= 1
          /\ requestedDaysBack <= MAX_DAYS_BACK

(* daysBack above MAX_DAYS_BACK was asked for, and the round planned for
   MAX_DAYS_BACK days has seven windows, the last one shorter than the
   others. *)
LongestBackfillPlanned ==
    /\ pc = "fetching"
    /\ requestedDaysBack = MAX_DAYS_BACK
    /\ Len(chunks) = 7
    /\ chunks[Len(chunks)].end - chunks[Len(chunks)].start < maxRangeSeconds

====
